---- MODULE Spec2Model ----
(***************************************************************************)
(* A model of rulekit's reconciliation core: resolveStack (src/src/env.ts), *)
(* syncRules / syncPrompts / syncSkills (src/src/sync.ts), the three        *)
(* prompt-file generators, and pushChanges with its helpers                 *)
(* (src/src/push.ts).                                                       *)
(*                                                                          *)
(* Text is a sequence of tokens.  The punctuation the code looks at is one  *)
(* token per character ("\n", " ", "-", "#", ":", "=", "'"); a word token   *)
(* ("vue", "Title", "common", ...) stands for a run of letters the code     *)
(* never looks into.  "'" stands for either quote character.                *)
(***************************************************************************)
EXTENDS Integers, Sequences, FiniteSets, TLC

VARIABLES fs, dirs, mtime, pc, args, ret, log

vars == <<fs, dirs, mtime, pc, args, ret, log>>

(***************************************************************************)
(* Tokens and JavaScript string primitives                                  *)
(***************************************************************************)
NL == "\n"
SP == " "
DASH == "-"
HASH == "#"
COLON == ":"
EQ == "="
QUOTE == "'"

WS == {NL, SP}

Fence == <<DASH, DASH, DASH>>

\* '\n\n---\n\n', the text mergeContent puts between the two layers
MergeSeparator == <<NL, NL, DASH, DASH, DASH, NL, NL>>

\* /\n\n---\n\n/, the expression pushRules splits on
SplitSeparator == <<NL, NL, DASH, DASH, DASH, NL, NL>>

\* String.prototype.slice(from) with a 1-based index
Drop(s, n) == SubSeq(s, n + 1, Len(s))

Take(s, n) == SubSeq(s, 1, n)

\* String.prototype.startsWith
StartsWith(s, p) == Len(s) >= Len(p) /\ SubSeq(s, 1, Len(p)) = p

\* String.prototype.endsWith
EndsWith(s, p) == Len(s) >= Len(p) /\ SubSeq(s, Len(s) - Len(p) + 1, Len(s)) = p

\* String.prototype.indexOf as a 1-based index, 0 when p does not occur
IndexOf(s, p) ==
  LET hits == {i \in 1..(Len(s) - Len(p) + 1) : SubSeq(s, i, i + Len(p) - 1) = p}
  IN IF hits = {} THEN 0 ELSE CHOOSE i \in hits : \A j \in hits : i <= j

\* String.prototype.includes
Includes(s, p) == IndexOf(s, p) # 0

RECURSIVE TrimStartIn(_, _)
TrimStartIn(s, set) ==
  IF s # <<>> /\ Head(s) \in set THEN TrimStartIn(Tail(s), set) ELSE s

RECURSIVE TrimEndIn(_, _)
TrimEndIn(s, set) ==
  IF s # <<>> /\ s[Len(s)] \in set THEN TrimEndIn(Take(s, Len(s) - 1), set) ELSE s

\* String.prototype.trim
Trim(s) == TrimEndIn(TrimStartIn(s, WS), WS)

\* String.prototype.split(sep) for a non-empty literal separator: the pieces
\* between the non-overlapping matches, found left to right
RECURSIVE Split(_, _)
Split(s, sep) ==
  LET i == IndexOf(s, sep)
  IN IF i = 0 THEN <<s>>
     ELSE <<Take(s, i - 1)>> \o Split(Drop(s, i + Len(sep) - 1), sep)

\* String.prototype.replace(p, r) with a string pattern: the first match only
ReplaceFirst(s, p, r) ==
  LET i == IndexOf(s, p)
  IN IF i = 0 THEN s ELSE Take(s, i - 1) \o r \o Drop(s, i + Len(p) - 1)

\* str.slice(-1) !== '\n' ? str + '\n' : str   (gray-matter's newline())
Newline(s) == IF s # <<>> /\ s[Len(s)] = NL THEN s ELSE s \o <<NL>>

\* JavaScript truthiness of a string
Truthy(s) == s # <<>>

(***************************************************************************)
(* The YAML fragment of gray-matter's engine (js-yaml): a block mapping of  *)
(* one-line entries `key: scalar`, blank lines and comment lines.  A value  *)
(* is a record [t, s]: t is its YAML type, s its text.                      *)
(***************************************************************************)
Punct == {NL, SP, DASH, HASH, COLON, EQ, QUOTE}

\* words js-yaml resolves to a number, and to a boolean
NumWords == {"3"}

BoolWords == {"true"}

ValStr(s) == [t |-> "str", s |-> s]

ValNum(w) == [t |-> "num", s |-> <<w>>]

ValBool(w) == [t |-> "bool", s |-> <<w>>]

ValNull == [t |-> "null", s |-> <<>>]

\* typeof val === 'string'
IsStr(v) == v.t = "str"

\* JavaScript truthiness of a parsed value (the model's numbers and booleans
\* are non-zero and true)
TruthyVal(v) == IF v.t = "str" THEN v.s # <<>> ELSE v.t # "null"

TrimSp(s) == TrimEndIn(TrimStartIn(s, {SP}), {SP})

\* no string is quoted when dumped
NeedsQuoteNever(s) == FALSE

\* does js-yaml dump this string in quotes: it would not read back as the
\* same plain scalar
NeedsQuote(s) ==
  \/ s = <<>>
  \/ s[1] \in {SP, DASH, HASH, COLON, QUOTE}
  \/ s[Len(s)] \in {SP, COLON}
  \/ Includes(s, <<COLON, SP>>)
  \/ Includes(s, <<SP, HASH>>)
  \/ (Len(s) = 1 /\ s[1] \in NumWords \cup BoolWords)

\* yaml.dump of one scalar
YamlDumpScalar(v) ==
  IF v.t = "null" THEN <<"null">>
  ELSE IF v.t = "str" /\ NeedsQuote(v.s) THEN <<QUOTE>> \o v.s \o <<QUOTE>>
  ELSE v.s

\* yaml.dump of a mapping, one `key: value` line per entry, in key order of
\* the object
RECURSIVE YamlDump(_)
YamlDump(data) ==
  IF data = <<>> THEN <<>>
  ELSE <<Head(data).k, COLON, SP>> \o YamlDumpScalar(Head(data).v) \o <<NL>>
       \o YamlDump(Tail(data))

\* a plain scalar ends where ` #` opens a comment
StripComment(t) ==
  IF t # <<>> /\ t[1] # QUOTE /\ Includes(t, <<SP, HASH>>)
    THEN TrimSp(Take(t, IndexOf(t, <<SP, HASH>>) - 1))
    ELSE t

ScalarOf(t) ==
  IF t = <<>> THEN [err |-> FALSE, v |-> ValNull]
  ELSE IF t[1] = QUOTE
    THEN IF Len(t) >= 2 /\ t[Len(t)] = QUOTE
              /\ ~Includes(SubSeq(t, 2, Len(t) - 1), <<QUOTE>>)
           THEN [err |-> FALSE, v |-> ValStr(SubSeq(t, 2, Len(t) - 1))]
           ELSE [err |-> TRUE, v |-> ValNull]
  ELSE IF Includes(t, <<COLON, SP>>) \/ t[Len(t)] = COLON
    THEN [err |-> TRUE, v |-> ValNull]
  ELSE IF t = <<"null">> THEN [err |-> FALSE, v |-> ValNull]
  ELSE IF Len(t) = 1 /\ t[1] \in NumWords THEN [err |-> FALSE, v |-> ValNum(t[1])]
  ELSE IF Len(t) = 1 /\ t[1] \in BoolWords THEN [err |-> FALSE, v |-> ValBool(t[1])]
  ELSE [err |-> FALSE, v |-> ValStr(t)]

\* yaml.load of the text after `key:`; err when js-yaml throws
YamlLoadScalar(raw) == ScalarOf(StripComment(TrimSp(raw)))

\* "blank", "entry" (key: scalar) or "plain" (a line of a plain scalar)
LineKind(line) ==
  LET t == TrimSp(line)
  IN IF t = <<>> \/ t[1] = HASH THEN "blank"
     ELSE IF /\ Len(line) >= 2
             /\ line[1] \notin Punct
             /\ line[2] = COLON
             /\ (Len(line) = 2 \/ line[3] = SP)
       THEN "entry"
     ELSE "plain"

HasKey(data, key) == \E i \in 1..Len(data) : data[i].k = key

\* data[key], ValNull standing for undefined as well
Get(data, key) ==
  IF HasKey(data, key)
    THEN data[CHOOSE i \in 1..Len(data) : data[i].k = key].v
    ELSE ValNull

\* obj[key] = val on an object that keeps its keys in insertion order
Put(data, key, val) ==
  IF HasKey(data, key)
    THEN [i \in 1..Len(data) |-> IF data[i].k = key THEN [k |-> key, v |-> val] ELSE data[i]]
    ELSE Append(data, [k |-> key, v |-> val])

\* Object.assign({}, a, b) and { ...a, ...b }
RECURSIVE Assign(_, _)
Assign(a, b) ==
  IF b = <<>> THEN a ELSE Assign(Put(a, Head(b).k, Head(b).v), Tail(b))

YamlError == [kind |-> "error", data |-> <<>>]

\* one more line read into the document read so far
YamlAddLine(acc, line, kind, sc) ==
  IF acc.kind = "error" \/ kind = "blank" THEN acc
  ELSE IF kind = "plain"
    THEN IF acc.kind = "map" /\ acc.data # <<>> THEN YamlError
         ELSE [kind |-> "scalar", data |-> <<>>]
  ELSE IF acc.kind = "scalar" \/ sc.err \/ HasKey(acc.data, line[1]) THEN YamlError
  ELSE [kind |-> "map", data |-> Append(acc.data, [k |-> line[1], v |-> sc.v])]

RECURSIVE YamlLoadLines(_, _)
YamlLoadLines(lines, acc) ==
  IF lines = <<>> THEN acc
  ELSE YamlLoadLines(Tail(lines),
         YamlAddLine(acc, Head(lines), LineKind(Head(lines)),
                     YamlLoadScalar(Drop(Head(lines), 2))))

\* yaml.safeLoad: kind "map" with its entries, "scalar" for a document that
\* is one plain scalar, "error" when js-yaml throws (a nested `: ` in a
\* plain value, a duplicated key, a mapping mixed with plain text)
YamlLoad(block) == YamlLoadLines(Split(block, <<NL>>), [kind |-> "map", data |-> <<>>])

(***************************************************************************)
(* gray-matter, as the code calls it: matter(str) and                       *)
(* matter.stringify(str, data).                                             *)
(***************************************************************************)
NoMatter(str) == [data |-> <<>>, kind |-> "map", content |-> str, err |-> FALSE]

\* file.matter.replace(/^\s*#[^\n]+/gm, '').trim() === '': the block holds
\* nothing but blank lines and comments
RECURSIVE AllBlank(_)
AllBlank(lines) ==
  lines = <<>> \/ (LineKind(Head(lines)) = "blank" /\ AllBlank(Tail(lines)))

\* matter.language: the text between the opening fence and the first line
\* break (all but the last character when there is no line break)
LanguageRaw(s, nl) ==
  IF nl = 0 THEN Take(s, IF Len(s) = 0 THEN 0 ELSE Len(s) - 1) ELSE Take(s, nl - 1)

\* the block parsed, {} when it holds nothing but blank lines and comments
BlockData(block) ==
  IF AllBlank(Split(block, <<NL>>)) THEN [kind |-> "map", data |-> <<>>]
  ELSE YamlLoad(block)

\* file.content: the text after the closing fence, less one line break
AfterFence(after) == IF after # <<>> /\ after[1] = NL THEN Tail(after) ELSE after

\* parseMatter once the opening fence is cut off: ci is the index of the
\* closing `\n---` in s (0: there is none, the block runs to the end)
ParseMatter(str, s, ci, y) ==
  IF Trim(LanguageRaw(s, IndexOf(s, <<NL>>))) # <<>> \/ y.kind = "error"
    THEN [data |-> <<>>, kind |-> "error", content |-> str, err |-> TRUE]
    ELSE [data |-> y.data, kind |-> y.kind,
          content |-> IF ci = 0 THEN <<>> ELSE AfterFence(Drop(s, ci + 3)),
          err |-> FALSE]

CloseFence == <<NL>> \o Fence

MatterBlock(s, ci) == IF ci = 0 THEN s ELSE Take(s, ci - 1)

ParseFenced(str, s, ci) == ParseMatter(str, s, ci, BlockData(MatterBlock(s, ci)))

\* matter(str): the front-matter block between a leading `---` and the next
\* `\n---` parsed as YAML, and the rest as content.  err: gray-matter throws
\* (js-yaml rejects the block, or the text after the opening fence names an
\* engine that is not registered).
Matter(str) ==
  IF ~StartsWith(str, Fence) THEN NoMatter(str)
  ELSE IF Len(str) > 3 /\ str[4] = DASH THEN NoMatter(str)
  ELSE ParseFenced(str, Drop(str, 3), IndexOf(Drop(str, 3), CloseFence))

\* stringify(file, data): a `---` block unless the mapping is empty, then
\* the content, ending in "\n"
Stringify(content, all) ==
  (IF all = <<>> THEN <<>> ELSE Fence \o <<NL>> \o YamlDump(all) \o Fence \o <<NL>>)
  \o Newline(content)

StringifyFile(file, data) == Stringify(file.content, Assign(file.data, data))

\* matter.stringify(str, data): str is itself parsed by matter() first; the
\* entries found there come first and `data` overrides them
MatterStringify(str, data) == StringifyFile(Matter(str), data)

(***************************************************************************)
(* The file system.  A path is [root, dir, name]: root is the rulekit       *)
(* checkout ("src"), the consumer project ("tgt") or the scratch clone      *)
(* targetPath/.rulekit-push-tmp ("tmp"); dir the directory segments below   *)
(* it; name the file name as tokens, <<"common", ".md">>.  A world w is     *)
(* [fs, dirs, mtime]: fs maps the files that exist to their text, dirs is   *)
(* the set of directories that exist, mtime maps files to their mtimeMs.    *)
(***************************************************************************)
File(root, dir, name) == [root |-> root, dir |-> dir, name |-> name]

Dir(root, dir) == [root |-> root, dir |-> dir]

\* path.dirname of a file
DirOf(p) == Dir(p.root, p.dir)

\* a directory and every directory above it, up to the root
Ancestors(d) == {Dir(d.root, Take(d.dir, n)) : n \in 0..Len(d.dir)}

\* the time every write of this invocation stamps: later than every file
\* that was there before
MaxMtime == 2

Now == MaxMtime + 1

\* fs.pathExists
FileExists(w, p) == p \in DOMAIN w.fs

DirExists(w, d) == d \in w.dirs

\* fs.readFile
ReadFile(w, p) == w.fs[p]

\* fs.ensureDir
EnsureDir(w, d) == [w EXCEPT !.dirs = @ \cup Ancestors(d)]

\* fs.appendFile in place of fs.writeFile
WriteFileAppending(w, p, text) ==
  [w EXCEPT !.fs = [q \in DOMAIN w.fs \cup {p} |->
                      IF q = p THEN (IF p \in DOMAIN w.fs THEN w.fs[p] ELSE <<>>) \o text
                      ELSE w.fs[q]],
            !.mtime = [q \in DOMAIN w.mtime \cup {p} |-> IF q = p THEN Now ELSE w.mtime[q]]]

\* fs.writeFile into a directory that exists
WriteFile(w, p, text) ==
  [w EXCEPT !.fs = [q \in DOMAIN w.fs \cup {p} |-> IF q = p THEN text ELSE w.fs[q]],
            !.mtime = [q \in DOMAIN w.mtime \cup {p} |-> IF q = p THEN Now ELSE w.mtime[q]]]

Under(d, top) == d.root = top.root /\ StartsWith(d.dir, top.dir)

\* fs.remove of a directory tree
RemoveTree(w, top) ==
  LET keep == {q \in DOMAIN w.fs : ~Under(DirOf(q), top)}
  IN [fs |-> [q \in keep |-> w.fs[q]],
      dirs |-> {d \in w.dirs : ~Under(d, top)},
      mtime |-> [q \in keep |-> w.mtime[q]]]

\* directory names glob's `**` and `*` do not enter or match (dot: false)
DotSegments == {".claude", ".cursor", ".github", ".rulekit-push-tmp", ".hidden"}

\* the files glob('**/<pattern>', { cwd }) matches, given the pattern's test
\* of a file name: every file below cwd reached through no dot directory
Below(w, cwd) ==
  {q \in DOMAIN w.fs :
     /\ Under(DirOf(q), cwd)
     /\ \A i \in (Len(cwd.dir) + 1)..Len(q.dir) : q.dir[i] \notin DotSegments}

\* glob('**/*.md', { cwd })
GlobMd(w, cwd) ==
  {q \in Below(w, cwd) : Len(q.name) >= 2 /\ q.name[Len(q.name)] = ".md"}

\* path.dirname(match) relative to cwd ('.' mapped to '')
RelDir(q, cwd) == Drop(q.dir, Len(cwd.dir))

\* an enumeration of a finite set, used where the order cannot matter
RECURSIVE SetToSeq(_)
SetToSeq(S) ==
  IF S = {} THEN <<>> ELSE LET x == CHOOSE x \in S : TRUE IN <<x>> \o SetToSeq(S \ {x})

(***************************************************************************)
(* src/src/sync.ts: syncRules                                               *)
(***************************************************************************)
AgentsName == <<"AGENTS", ".md">>

RuleName(stack) == <<stack, ".md">>

\* the two layers joined in the other order
mergeContentStackFirst(commonContent, stackContent) ==
  IF ~Truthy(commonContent) /\ ~Truthy(stackContent) THEN <<>>
  ELSE IF ~Truthy(commonContent) THEN stackContent
  ELSE IF ~Truthy(stackContent) THEN commonContent
  ELSE Trim(stackContent) \o MergeSeparator \o Trim(commonContent) \o <<NL>>

\* mergeContent(commonContent, stackContent)
mergeContent(commonContent, stackContent) ==
  IF ~Truthy(commonContent) /\ ~Truthy(stackContent) THEN <<>>
  ELSE IF ~Truthy(commonContent) THEN stackContent
  ELSE IF ~Truthy(stackContent) THEN commonContent
  ELSE Trim(commonContent) \o MergeSeparator \o Trim(stackContent) \o <<NL>>

ContentOrRaw(parsed, raw) == IF Truthy(Trim(parsed.content)) THEN parsed.content ELSE raw

\* findRuleFiles, per file: the body without front matter, or the raw text
\* when the body is blank
RuleFileContent(raw) == ContentOrRaw(Matter(raw), raw)

RulesDir == Dir("src", <<"rules">>)

\* findRuleFiles: the keys of rulesByPath
RulePaths(w) ==
  IF ~DirExists(w, RulesDir) THEN {}
  ELSE {RelDir(q, RulesDir) : q \in GlobMd(w, RulesDir)}

\* findRuleFiles throws when gray-matter rejects a rule file
FindRuleFilesThrows(w) ==
  DirExists(w, RulesDir) /\ \E q \in GlobMd(w, RulesDir) : Matter(ReadFile(w, q)).err

\* rulesByPath.get(relativePath).get(stackName) || ''
StackFileContent(w, rel, stack) ==
  IF FileExists(w, File("src", RulesDir.dir \o rel, RuleName(stack)))
    THEN RuleFileContent(ReadFile(w, File("src", RulesDir.dir \o rel, RuleName(stack))))
    ELSE <<>>

StackFrontmatter(stack) == <<[k |-> "stack", v |-> ValStr(<<stack>>)]>>

\* the loop body without its `continue` for a path with no content
WriteMergedAlways(w, rel, stack, commonContent, stackContent) ==
  WriteFile(EnsureDir(w, Dir("tgt", rel)), File("tgt", rel, AgentsName),
            MatterStringify(<<NL>> \o mergeContent(commonContent, stackContent),
                            StackFrontmatter(stack)))

\* lines 38-50 of syncRules: skip a path with no content, else merge, wrap
\* with the stack front matter, write
WriteMerged(w, rel, stack, commonContent, stackContent) ==
  IF ~Truthy(commonContent) /\ ~Truthy(stackContent) THEN w
  ELSE WriteFile(EnsureDir(w, Dir("tgt", rel)), File("tgt", rel, AgentsName),
                 MatterStringify(<<NL>> \o mergeContent(commonContent, stackContent),
                                 StackFrontmatter(stack)))

\* the body of the loop of syncRules for one relativePath
SyncRulePath(w, rel, stack) ==
  WriteMerged(w, rel, stack,
              StackFileContent(w, rel, "common"),
              IF stack # "common" THEN StackFileContent(w, rel, stack) ELSE <<>>)

RECURSIVE SyncRulePaths(_, _, _)
SyncRulePaths(w, rels, stack) ==
  IF rels = <<>> THEN w
  ELSE SyncRulePaths(SyncRulePath(w, Head(rels), stack), Tail(rels), stack)

\* syncRules(rulekitRoot, targetPath, stack): the world it leaves, and
\* whether it threw
syncRules(w, stack) ==
  IF FindRuleFilesThrows(w) THEN [w |-> w, threw |-> TRUE]
  ELSE [w |-> SyncRulePaths(w, SetToSeq(RulePaths(w)), stack), threw |-> FALSE]

(***************************************************************************)
(* The prompt-file generators                                               *)
(***************************************************************************)
\* parsed.content.trim().split('\n')[0]
FirstLine(content) == Split(Trim(content), <<NL>>)[1]

HeadingMark == <<HASH, SP>>

\* lines[0]?.startsWith('# ')
HasHeading(content) == StartsWith(FirstLine(content), HeadingMark)

\* lines[0].replace('# ', '').trim()
HeadingText(content) == Trim(ReplaceFirst(FirstLine(content), HeadingMark, <<>>))

RulekitPrefix == "rulekit-"

\* a generator that returns the body alone, cutting the metadata block off
generateCursorCommandBodyOnly(content) == [text |-> Matter(content).content, threw |-> FALSE]

\* generateCursorCommand(content)
generateCursorCommand(content) == [text |-> content, threw |-> FALSE]


Threw == [text |-> <<>>, threw |-> TRUE]

Returned(text) == [text |-> text, threw |-> FALSE]

\* matter.stringify(parsed.content, frontmatter), which parses the content
\* again and throws when that fails
StringifyOrThrow(content, frontmatter) ==
  IF Matter(content).err THEN Threw ELSE Returned(MatterStringify(content, frontmatter))

\* let description = name; if (lines[0]?.startsWith('# ')) description = ...
VSCodeDescription(content, name) ==
  IF HasHeading(content) THEN HeadingText(content) ELSE name

\* { ...parsed.data, name, description, agent }: the derived fields spread
\* last, over what the source carries
VSCodeFrontmatterDerivedLast(parsed, name) ==
  Assign(parsed.data,
         <<[k |-> "name", v |-> ValStr(<<RulekitPrefix>> \o name)],
           [k |-> "description", v |-> ValStr(VSCodeDescription(parsed.content, name))],
           [k |-> "agent", v |-> ValStr(<<"agent">>)]>>)

\* { name, description, agent, ...parsed.data }: parsed.data is spread
\* last, over the derived name, description and agent
VSCodeFrontmatter(parsed, name) ==
  Assign(<<[k |-> "name", v |-> ValStr(<<RulekitPrefix>> \o name)],
           [k |-> "description", v |-> ValStr(VSCodeDescription(parsed.content, name))],
           [k |-> "agent", v |-> ValStr(<<"agent">>)]>>,
         parsed.data)

VSCodeFromParsed(parsed, name) ==
  IF parsed.err THEN Threw
  ELSE StringifyOrThrow(parsed.content, VSCodeFrontmatter(parsed, name))

\* generateVSCodePrompt(content, name)
generateVSCodePrompt(content, name) == VSCodeFromParsed(Matter(content), name)

\* claudeFrontmatter[key] = parsed.data[key] when that is truthy
CopyIfTruthy(fm, data, key) ==
  IF TruthyVal(Get(data, key)) THEN Put(fm, key, Get(data, key)) ELSE fm

\* lines 15-21 without the fall-back to the name
ClaudeDescriptionNoFallback(parsed, name) ==
  IF HasHeading(parsed.content) THEN ValStr(HeadingText(parsed.content)) ELSE ValNull

\* lines 15-21: the heading, else the name when the front matter has no
\* description, else undefined (ValNull)
ClaudeDescription(parsed, name) ==
  IF HasHeading(parsed.content) THEN ValStr(HeadingText(parsed.content))
  ELSE IF ~TruthyVal(Get(parsed.data, "description")) THEN ValStr(name)
  ELSE ValNull

\* lines 32-34: parsed.data.description || description, when either is truthy
PutDescription(fm, fromData, description) ==
  IF TruthyVal(fromData) THEN Put(fm, "description", fromData)
  ELSE IF TruthyVal(description) THEN Put(fm, "description", description)
  ELSE fm

\* lines 24-37: the fields of the Claude Code front matter, in this order
ClaudeFrontmatter(parsed, name) ==
  CopyIfTruthy(
    PutDescription(
      CopyIfTruthy(CopyIfTruthy(<<>>, parsed.data, "allowed-tools"), parsed.data, "argument-hint"),
      Get(parsed.data, "description"),
      ClaudeDescription(parsed, name)),
    parsed.data, "model")

ClaudeEmit(parsed, claudeFrontmatter) ==
  IF Len(claudeFrontmatter) > 0 THEN StringifyOrThrow(parsed.content, claudeFrontmatter)
  ELSE Returned(parsed.content)

ClaudeFromParsed(parsed, name) ==
  IF parsed.err THEN Threw ELSE ClaudeEmit(parsed, ClaudeFrontmatter(parsed, name))

\* generateClaudeCodeCommand(content, name)
generateClaudeCodeCommand(content, name) == ClaudeFromParsed(Matter(content), name)

(***************************************************************************)
(* src/src/sync.ts: syncPrompts and syncSkills                              *)
(***************************************************************************)
PromptsDir(stack) == Dir("src", <<"prompts", stack>>)

\* path.basename(file, '.md')
BaseName(name) == IF EndsWith(name, <<".md">>) THEN Take(name, Len(name) - 1) ELSE name

\* the Cursor variant written among the user's rules of .cursor/rules
CursorRulesPath(baseName) ==
  File("tgt", <<".cursor", "rules">>, baseName \o <<".md">>)

CursorPath(baseName) ==
  File("tgt", <<".cursor", "commands">>, <<RulekitPrefix>> \o baseName \o <<".md">>)

VSCodePath(baseName) ==
  File("tgt", <<".github", "prompts">>, <<RulekitPrefix>> \o baseName \o <<".prompt", ".md">>)

ClaudePath(baseName) ==
  File("tgt", <<".claude", "commands">>, <<RulekitPrefix>> \o baseName \o <<".md">>)

Reverse(seq) == [i \in 1..Len(seq) |-> seq[Len(seq) + 1 - i]]

\* the order in which glob lists a set of files: one of two opposite
\* enumerations, fixed for the run by `rev`
GlobOrder(S, rev) == IF rev THEN Reverse(SetToSeq(S)) ELSE SetToSeq(S)

\* promptFiles with the stack's prompts ahead of the common ones
PromptFilesStackFirst(w, stack, rev) ==
  (IF stack # "common" /\ DirExists(w, PromptsDir(stack))
     THEN GlobOrder(GlobMd(w, PromptsDir(stack)), rev) ELSE <<>>)
  \o
  (IF DirExists(w, PromptsDir("common"))
     THEN GlobOrder(GlobMd(w, PromptsDir("common")), rev) ELSE <<>>)

\* promptFiles: the common prompts, then the stack's
PromptFiles(w, stack, rev) ==
  (IF DirExists(w, PromptsDir("common"))
     THEN GlobOrder(GlobMd(w, PromptsDir("common")), rev) ELSE <<>>)
  \o
  (IF stack # "common" /\ DirExists(w, PromptsDir(stack))
     THEN GlobOrder(GlobMd(w, PromptsDir(stack)), rev) ELSE <<>>)

\* await fs.ensureDir(dirname(path)); await fs.writeFile(path, generated):
\* the directory is made before the generator runs, nothing is written
\* when it throws
GenerateInto(r, path, generated) ==
  IF r.threw THEN r
  ELSE IF generated.threw THEN [w |-> EnsureDir(r.w, DirOf(path)), threw |-> TRUE]
  ELSE [w |-> WriteFile(EnsureDir(r.w, DirOf(path)), path, generated.text), threw |-> FALSE]

\* lines 82-102 for one prompt file with this content and base name
WriteVariants(w, content, baseName) ==
  GenerateInto(
    GenerateInto(
      GenerateInto([w |-> w, threw |-> FALSE],
                   CursorPath(baseName), generateCursorCommand(content)),
      VSCodePath(baseName), generateVSCodePrompt(content, baseName)),
    ClaudePath(baseName), generateClaudeCodeCommand(content, baseName))

\* the body of the loop of syncPrompts for one prompt file
SyncPromptFile(w, promptFile) ==
  WriteVariants(w, ReadFile(w, promptFile), BaseName(promptFile.name))

RECURSIVE SyncPromptFiles(_, _)

SyncRest(r, files) == IF r.threw THEN r ELSE SyncPromptFiles(r.w, files)

SyncPromptFiles(w, files) ==
  IF files = <<>> THEN [w |-> w, threw |-> FALSE]
  ELSE SyncRest(SyncPromptFile(w, Head(files)), Tail(files))

\* syncPrompts(rulekitRoot, targetPath, stack)
syncPrompts(w, stack, rev) == SyncPromptFiles(w, PromptFiles(w, stack, rev))

SkillsDir == Dir("src", <<"skills">>)

SkillMd == <<"SKILL", ".md">>

\* fs.copy(from, to, { overwrite: true }): every file and directory of the
\* tree, over what is there
CopyTree(w, from, to) ==
  LET moved(q) == File(to.root, to.dir \o Drop(q.dir, Len(from.dir)), q.name)
      srcFiles == {q \in DOMAIN w.fs : Under(DirOf(q), from)}
      srcDirs == {d \in w.dirs : Under(d, from)}
      newDirs == UNION {Ancestors(Dir(to.root, to.dir \o Drop(d.dir, Len(from.dir)))) : d \in srcDirs}
      back(p) == CHOOSE q \in srcFiles : moved(q) = p
      written == {moved(q) : q \in srcFiles}
  IN [fs |-> [p \in DOMAIN w.fs \cup written |->
                IF p \in written THEN w.fs[back(p)] ELSE w.fs[p]],
      dirs |-> w.dirs \cup newDirs,
      mtime |-> [p \in DOMAIN w.fs \cup written |->
                IF p \in written THEN Now ELSE w.mtime[p]]]

\* the directories readdir lists in `top`
SubDirs(w, top) == {d \in w.dirs : Under(d, top) /\ Len(d.dir) = Len(top.dir) + 1}

\* the body of the loop of syncSkills for one entry
SyncSkill(w, skillSource) ==
  LET entryName == skillSource.dir[Len(skillSource.dir)]
      targetSkillDir == Dir("tgt", <<".claude", "skills", entryName>>)
  IN IF ~FileExists(w, File(skillSource.root, skillSource.dir, SkillMd)) THEN w
     ELSE CopyTree(w, skillSource, targetSkillDir)

RECURSIVE SyncSkillDirs(_, _)
SyncSkillDirs(w, ds) ==
  IF ds = <<>> THEN w ELSE SyncSkillDirs(SyncSkill(w, Head(ds)), Tail(ds))

\* syncSkills(rulekitRoot, targetPath, _stack)
\* syncSkills making its target directory before it looks for skills/
syncSkillsEnsuringTarget(w) ==
  IF ~DirExists(w, SkillsDir)
    THEN [w |-> EnsureDir(w, Dir("tgt", <<".claude", "skills">>)), threw |-> FALSE]
  ELSE [w |-> SyncSkillDirs(w, SetToSeq(SubDirs(w, SkillsDir))), threw |-> FALSE]

syncSkills(w) ==
  IF ~DirExists(w, SkillsDir) THEN [w |-> w, threw |-> FALSE]
  ELSE [w |-> SyncSkillDirs(w, SetToSeq(SubDirs(w, SkillsDir))), threw |-> FALSE]

(***************************************************************************)
(* Worlds the specifications start from                                     *)
(***************************************************************************)
W == [fs |-> fs, dirs |-> dirs, mtime |-> mtime]

Roots == {Dir("src", <<>>), Dir("tgt", <<>>)}

\* the world that holds exactly the files of `files` (a function from paths
\* to text), every one last modified at time `t`
MkWorld(files, t) ==
  [fs |-> files,
   dirs |-> Roots \cup UNION {Ancestors(DirOf(q)) : q \in DOMAIN files},
   mtime |-> [q \in DOMAIN files |-> t]]

\* the union of two worlds with disjoint files
Merge2(a, b) ==
  [fs |-> [q \in DOMAIN a.fs \cup DOMAIN b.fs |-> IF q \in DOMAIN a.fs THEN a.fs[q] ELSE b.fs[q]],
   dirs |-> a.dirs \cup b.dirs,
   mtime |-> [q \in DOMAIN a.fs \cup DOMAIN b.fs |->
               IF q \in DOMAIN a.fs THEN a.mtime[q] ELSE b.mtime[q]]]

\* how many files of the varied area a world holds at most
MaxFiles == 2

\* every way to put at most MaxFiles files of `paths` on disk with texts of `docs`
Placements(paths, docs) ==
  UNION {[S -> docs] : S \in {T \in SUBSET paths : Cardinality(T) <= MaxFiles}}

FmLine(key, val) == <<key, COLON, SP>> \o val \o <<NL>>

FmBlock(lines) == Fence \o <<NL>> \o lines \o Fence \o <<NL>>

\* rule files: plain, front matter before a body padded with whitespace,
\* front matter only, holding the separator, blank, and with a block
\* js-yaml rejects
RuleDocs ==
  { <<"a", NL>>,
    FmBlock(FmLine("stack", <<"common">>) \o FmLine("custom", <<"v">>)) \o <<NL, "b", SP, NL>>,
    FmBlock(FmLine("stack", <<"vue">>)),
    <<"d">> \o MergeSeparator \o <<"e", NL>>,
    <<NL>>,
    FmBlock(FmLine("k", <<"v", COLON, SP, "w">>)) \o <<"a", NL>> }

RuleFilePaths ==
  { File("src", <<"rules">>, RuleName("common")),
    File("src", <<"rules">>, RuleName("vue")),
    File("src", <<"rules">>, RuleName("nuxt")),
    File("src", <<"rules", "docs">>, RuleName("common")),
    File("src", <<"rules", "docs">>, RuleName("vue")) }

\* prompt sources: heading and body, plain body, front matter with a
\* description, with client fields and a custom one, a body that opens with
\* a rule, and a block js-yaml rejects
PromptDocs ==
  { <<HASH, SP, "T", NL, NL, "b", NL>>,
    <<"b">>,
    FmBlock(FmLine("description", <<"d">>) \o FmLine("model", <<"m">>)) \o <<HASH, SP, "T", NL, "b">>,
    FmBlock(FmLine("name", <<"n">>) \o FmLine("custom", <<"v">>)) \o <<"b", NL>>,
    FmBlock(FmLine("model", <<"m">>)) \o Fence \o <<NL, NL>> \o Fence \o <<NL, "b">>,
    FmBlock(FmLine("k", <<"v", COLON, SP, "w">>)) \o <<"b">> }

PromptFilePaths ==
  { File("src", <<"prompts", "common">>, <<"x", ".md">>),
    File("src", <<"prompts", "common", "sub">>, <<"x", ".md">>),
    File("src", <<"prompts", "common">>, <<"y", ".md">>),
    File("src", <<"prompts", "vue">>, <<"x", ".md">>),
    File("src", <<"prompts", "vue">>, <<"z", ".md">>) }

SkillDocs == { <<HASH, SP, "S", NL>>, <<"t">> }

SkillFilePaths ==
  { File("src", <<"skills", "s1">>, SkillMd),
    File("src", <<"skills", "s1", "references">>, <<"r", ".md">>),
    File("src", <<"skills", "s2">>, SkillMd),
    File("src", <<"skills", "s2">>, <<"notes", ".txt">>) }

\* what the areas that are not varied hold
DefaultRules == (File("src", <<"rules">>, RuleName("common")) :> <<"a", NL>>)

DefaultPrompts == (File("src", <<"prompts", "common">>, <<"x", ".md">>) :> <<HASH, SP, "T", NL, NL, "b", NL>>)

DefaultSkills == (File("src", <<"skills", "s1">>, SkillMd) :> <<"t">>)

RuleTrees == {r @@ DefaultPrompts @@ DefaultSkills : r \in Placements(RuleFilePaths, RuleDocs)}

PromptTrees == {DefaultRules @@ q @@ DefaultSkills : q \in Placements(PromptFilePaths, PromptDocs)}

SkillTrees == {DefaultRules @@ DefaultPrompts @@ k : k \in Placements(SkillFilePaths, SkillDocs)}

\* what the target holds before the first sync: nothing, or the output of
\* an older sync beside the user's own instruction files
StaleTarget ==
  (File("tgt", <<>>, AgentsName) :> <<"old", NL>>)
  @@ (File("tgt", <<"docs">>, AgentsName) :> <<"old", NL>>)
  @@ (File("tgt", <<".claude", "commands">>, <<RulekitPrefix, "x", ".md">>) :> <<"old">>)
  @@ (File("tgt", <<".claude", "skills", "s1">>, <<"extra", ".md">>) :> <<"old">>)
  @@ (File("tgt", <<>>, <<"CLAUDE", ".md">>) :> <<"mine">>)
  @@ (File("tgt", <<>>, <<".cursorrules">>) :> <<"mine">>)
  @@ (File("tgt", <<".cursor", "rules">>, <<"mine", ".md">>) :> <<"mine">>)
  @@ (File("tgt", <<".github">>, <<"copilot-instructions", ".md">>) :> <<"mine">>)

TargetTrees == {<<>>, StaleTarget}

\* a checkout whose sources are named after the user's own files: a rule
\* file inside a dot directory, a prompt and a skill file called CLAUDE.md
NamesakeTree ==
  DefaultRules @@ DefaultPrompts @@ DefaultSkills
  @@ (File("src", <<"rules", ".cursor", "rules">>, RuleName("common")) :> <<"a", NL>>)
  @@ (File("src", <<"prompts", "common">>, <<"CLAUDE", ".md">>) :> <<"b">>)
  @@ (File("src", <<"skills", "s1">>, <<"CLAUDE", ".md">>) :> <<"t">>)

SyncStacks == {"common", "vue"}

(***************************************************************************)
(* SpecSync: the sync command run MaxRuns times over an unchanged source    *)
(* tree: syncRules, syncPrompts, syncSkills in that order, the command      *)
(* ending at the first of them that throws.  log holds, for every           *)
(* operation that has run, whether it threw; ret is the last operation,     *)
(* whether it threw, whether it had run before, and the number of the run.  *)
(***************************************************************************)
\* how many times the command is run
MaxRuns == 2

\* the source tree varies in one area at a time, holds nothing at all, or
\* holds sources named after the user's files;
\* the enumeration order only matters to syncPrompts
SyncInputs ==
  {[src |-> t, tgt |-> g, stack |-> k, rev |-> FALSE] :
     t \in RuleTrees \cup SkillTrees, g \in TargetTrees, k \in SyncStacks}
  \cup {[src |-> t, tgt |-> <<>>, stack |-> k, rev |-> r] :
     t \in PromptTrees, k \in SyncStacks, r \in BOOLEAN}
  \cup {[src |-> t, tgt |-> g, stack |-> k, rev |-> FALSE] :
     t \in {<<>>, NamesakeTree}, g \in TargetTrees, k \in SyncStacks}

InitSync ==
  /\ \E i \in SyncInputs :
       LET w == Merge2(MkWorld(i.src, 1), MkWorld(i.tgt, 1))
       IN /\ fs = w.fs /\ dirs = w.dirs /\ mtime = w.mtime
          /\ args = [stack |-> i.stack, rev |-> i.rev]
  /\ pc = "rules"
  /\ ret = [last |-> "none", threw |-> FALSE, again |-> FALSE, run |-> 1]
  /\ log = {}

HasRun(op) == \E e \in log : e.op = op

Completed(op) == [op |-> op, threw |-> FALSE] \in log

\* where the command goes after an operation: on to `next`, or, when it
\* threw or was the last one, to the next run of the command
Onward(threw, next) ==
  IF ~threw /\ next # "end" THEN next
  ELSE IF ret.run < MaxRuns THEN "rules" ELSE "done"

Ran(op, r, next) ==
  /\ fs' = r.w.fs
  /\ dirs' = r.w.dirs
  /\ mtime' = r.w.mtime
  /\ pc' = Onward(r.threw, next)
  /\ ret' = [last |-> op, threw |-> r.threw, again |-> HasRun(op),
             run |-> IF Onward(r.threw, next) = "rules" THEN ret.run + 1 ELSE ret.run]
  /\ log' = log \cup {[op |-> op, threw |-> r.threw]}
  /\ UNCHANGED args

SyncRules == pc = "rules" /\ Ran("rules", syncRules(W, args.stack), "prompts")

SyncPrompts == pc = "prompts" /\ Ran("prompts", syncPrompts(W, args.stack, args.rev), "skills")

SyncSkills == pc = "skills" /\ Ran("skills", syncSkills(W), "end")

NextSync == SyncRules \/ SyncPrompts \/ SyncSkills

SpecSync == InitSync /\ [][NextSync]_vars

(***************************************************************************)
(* resolveStack.  A stack name is a text here, <<"vue">>, since the .env    *)
(* file can yield any text; undefined and '' are both <<>>.                 *)
(***************************************************************************)
Last(seq) == seq[Len(seq)]

TargetAgents(rel) == File("tgt", rel, AgentsName)

\* the word RULEKIT_STACK
RulekitStack == "RULEKIT_STACK"

EnvFile == File("tgt", <<>>, <<".env">>)

\* ^RULEKIT_STACK\s*= can match at i: i starts a line (flag m), the word is
\* there, and `=` follows the white space after it.  The result is the
\* position after `=`, 0 when there is no match at i.
AfterEquals(content, i) ==
  IF /\ (i = 1 \/ content[i - 1] = NL)
     /\ content[i] = RulekitStack
     /\ TrimStartIn(Drop(content, i), WS) # <<>>
     /\ Head(TrimStartIn(Drop(content, i), WS)) = EQ
  THEN Len(content) - Len(TrimStartIn(Drop(content, i), WS)) + 2
  ELSE 0

\* .+ from position j: the rest of the line
RestOfLine(content, j) == Split(Drop(content, j - 1), <<NL>>)[1]

\* \s*(.+)$ from position j with the white space `ws` ahead of it: \s* is
\* greedy and crosses line breaks; when nothing follows the white space it
\* gives characters back until .+ has one that is no line break.  <<>> when
\* there is no match.
RECURSIVE GiveBack(_, _, _)
GiveBack(content, j, n) ==
  IF n = 0 THEN <<>>
  ELSE IF content[j + n - 1] # NL THEN RestOfLine(content, j + n - 1)
  ELSE GiveBack(content, j, n - 1)

Capture(content, j, rest) ==
  IF TrimStartIn(rest, WS) # <<>> THEN RestOfLine(content, Len(content) - Len(TrimStartIn(rest, WS)) + 1)
  ELSE GiveBack(content, j, Len(rest))

\* match[1] of content.match(/^RULEKIT_STACK\s*=\s*(.+)$/m) at position i
CaptureAt(content, i) ==
  IF AfterEquals(content, i) = 0 THEN <<>>
  ELSE Capture(content, AfterEquals(content, i), Drop(content, AfterEquals(content, i) - 1))

\* the leftmost position where the expression matches, 0 when none
MatchStart(content) ==
  LET hits == {i \in 1..Len(content) : CaptureAt(content, i) # <<>>}
  IN IF hits = {} THEN 0 ELSE CHOOSE i \in hits : \A k \in hits : i <= k

\* .replace(/^["']|["']$/g, '')
StripLeadingQuote(t) == IF t # <<>> /\ Head(t) = QUOTE THEN Tail(t) ELSE t

StripTrailingQuote(t) == IF t # <<>> /\ Last(t) = QUOTE THEN Take(t, Len(t) - 1) ELSE t

StripQuotes(t) == StripTrailingQuote(StripLeadingQuote(t))

EnvValueAt(content, i) ==
  IF i = 0 THEN <<>> ELSE StripQuotes(Trim(CaptureAt(content, i)))

\* readStackFromEnv(targetPath): undefined and '' alike are <<>>
readStackFromEnv(w) ==
  IF ~FileExists(w, EnvFile) THEN <<>>
  ELSE EnvValueAt(ReadFile(w, EnvFile), MatchStart(ReadFile(w, EnvFile)))

\* parsed.data?.stack when it is a string other than 'common' (and not '')
StackOfData(data) ==
  IF HasKey(data, "stack") /\ IsStr(Get(data, "stack")) /\ TruthyVal(Get(data, "stack"))
     /\ Get(data, "stack").s # <<"common">>
  THEN Get(data, "stack").s ELSE <<>>

\* readStackFromAgentsMd(targetPath): [value, threw]
readStackFromAgentsMd(w) ==
  IF ~FileExists(w, TargetAgents(<<>>)) THEN [value |-> <<>>, threw |-> FALSE]
  ELSE IF Matter(ReadFile(w, TargetAgents(<<>>))).err THEN [value |-> <<>>, threw |-> TRUE]
  ELSE [value |-> StackOfData(Matter(ReadFile(w, TargetAgents(<<>>))).data), threw |-> FALSE]

OrCommon(agents) ==
  IF agents.threw THEN agents
  ELSE IF Truthy(agents.value) THEN agents
  ELSE [value |-> <<"common">>, threw |-> FALSE]

\* resolveStack(explicitStack, targetPath): [value, threw]
resolveStack(explicitStack, w) ==
  IF Truthy(explicitStack) THEN [value |-> explicitStack, threw |-> FALSE]
  ELSE IF Truthy(readStackFromEnv(w)) THEN [value |-> readStackFromEnv(w), threw |-> FALSE]
  ELSE OrCommon(readStackFromAgentsMd(w))

(***************************************************************************)
(* push: rules                                                              *)
(* Each helper returns [w, changed, threw]: the world it leaves, the        *)
(* boolean it returns, and whether it threw instead of returning.           *)
(***************************************************************************)
Unchanged(w) == [w |-> w, changed |-> FALSE, threw |-> FALSE]

Wrote(w) == [w |-> w, changed |-> TRUE, threw |-> FALSE]

Failed(w) == [w |-> w, changed |-> FALSE, threw |-> TRUE]

\* agentsContent.split(/\n\n---\n\n/)
Sections(content) == Split(content, SplitSeparator)

\* pushRules: the first section for common, else the last one, else the
\* only one
RootSection(sections, stack) ==
  IF stack = "common" THEN Trim(sections[1])
  ELSE IF Len(sections) > 1 THEN Trim(Last(sections)) ELSE Trim(sections[1])

\* pushSubdirRules: as above, but '' when there is no separator
SubdirSection(sections, stack) ==
  IF stack = "common" THEN Trim(sections[1])
  ELSE IF Len(sections) > 1 THEN Trim(Last(sections)) ELSE <<>>

GuidanceHeading == <<HASH, HASH, SP, "About This File">>

\* the lookahead (?=\n## |\n# |$)
GuidanceStops(rest) ==
  \/ rest = <<>>
  \/ StartsWith(rest, <<NL, HASH, HASH, SP>>)
  \/ StartsWith(rest, <<NL, HASH, SP>>)

\* the lazy [\s\S]*? from position i: the first position where it may stop
RECURSIVE GuidanceEnd(_, _)
GuidanceEnd(s, i) ==
  IF GuidanceStops(Drop(s, i - 1)) THEN i ELSE GuidanceEnd(s, i + 1)

CutGuidance(content, i) ==
  IF i = 0 THEN content
  ELSE Take(content, i - 1)
       \o Drop(content, GuidanceEnd(content, i + Len(GuidanceHeading)) - 1)

\* stripGuidanceSection(content)
stripGuidanceSection(content) ==
  Trim(CutGuidance(content, IndexOf(content, GuidanceHeading)))

CloneRuleFile(rel, stack) == File("tmp", <<"rules">> \o rel, RuleName(stack))

\* existingContent: the trimmed body of the rule file in the clone, or ''
ExistingContent(w, ruleFile) ==
  IF FileExists(w, ruleFile) THEN Trim(Matter(ReadFile(w, ruleFile)).content) ELSE <<>>

\* matter.stringify('\n' + ruleContent + '\n', { stack })
CanonicalRule(ruleContent, stack) ==
  MatterStringify(<<NL>> \o ruleContent \o <<NL>>, StackFrontmatter(stack))

RootRuleContent(agentsRaw, stack) ==
  stripGuidanceSection(RootSection(Sections(Matter(agentsRaw).content), stack))

\* if (ruleContent !== existingContent) { writeFile(ruleFile, ...) }: the
\* write fails when the clone has no rules/ directory
WriteRoot(w, ruleFile, ruleContent, existingContent, stack) ==
  IF ruleContent = existingContent THEN Unchanged(w)
  ELSE IF ~DirExists(w, DirOf(ruleFile)) THEN Failed(w)
  ELSE Wrote(WriteFile(w, ruleFile, CanonicalRule(ruleContent, stack)))

\* pushRules up to rootChanged
PushRoot(w, stack) ==
  IF Matter(ReadFile(w, TargetAgents(<<>>))).err THEN Failed(w)
  ELSE IF FileExists(w, CloneRuleFile(<<>>, stack))
          /\ Matter(ReadFile(w, CloneRuleFile(<<>>, stack))).err THEN Failed(w)
  ELSE WriteRoot(w, CloneRuleFile(<<>>, stack),
                 RootRuleContent(ReadFile(w, TargetAgents(<<>>)), stack),
                 ExistingContent(w, CloneRuleFile(<<>>, stack)), stack)

\* glob('**/AGENTS.md', { cwd: targetPath, ignore: [node_modules, TEMP_DIR] })
\* less the root document
SubdirAgents(w) ==
  {q \in Below(w, Dir("tgt", <<>>)) :
     q.name = AgentsName /\ q.dir # <<>> /\ q.dir[1] # "node_modules"}

\* the write of pushSubdirRules going to the common rule file of the directory
WriteSubdirAsCommon(w, rel, ruleContent, stack) ==
  IF ~Truthy(ruleContent) THEN Unchanged(w)
  ELSE Wrote(WriteFile(EnsureDir(w, DirOf(CloneRuleFile(rel, "common"))),
                       CloneRuleFile(rel, "common"), CanonicalRule(ruleContent, stack)))

\* lines 198-206 of pushSubdirRules: skip an empty section, else write
WriteSubdir(w, rel, ruleContent, stack) ==
  IF ~Truthy(ruleContent) THEN Unchanged(w)
  ELSE Wrote(WriteFile(EnsureDir(w, DirOf(CloneRuleFile(rel, stack))),
                       CloneRuleFile(rel, stack), CanonicalRule(ruleContent, stack)))

\* the loop body of pushSubdirRules for one document
PushSubdir(w, q, stack) ==
  IF Matter(ReadFile(w, q)).err THEN Failed(w)
  ELSE WriteSubdir(w, q.dir, SubdirSection(Sections(Matter(ReadFile(w, q)).content), stack), stack)

\* r2 after r1: the world of r2, changed if either changed
Then(r1, r2) == [w |-> r2.w, changed |-> r1.changed \/ r2.changed, threw |-> r2.threw]

RECURSIVE PushSubdirs(_, _, _)
PushSubdirs(r, files, stack) ==
  IF r.threw \/ files = <<>> THEN r
  ELSE PushSubdirs(Then(r, PushSubdir(r.w, Head(files), stack)), Tail(files), stack)

\* pushSubdirRules(targetPath, tempDir, stack)
pushSubdirRules(w, stack) == PushSubdirs(Unchanged(w), SetToSeq(SubdirAgents(w)), stack)

RootThenSubdirs(r, stack) == IF r.threw THEN r ELSE Then(r, pushSubdirRules(r.w, stack))

\* pushRules(targetPath, tempDir, stack)
pushRules(w, stack) ==
  IF ~FileExists(w, TargetAgents(<<>>)) THEN Unchanged(w)
  ELSE RootThenSubdirs(PushRoot(w, stack), stack)

(***************************************************************************)
(* push: prompts                                                            *)
(***************************************************************************)
\* CLIENT_ONLY_FIELDS
ClientOnlyFields == {"name", "agent"}

\* one entry of parsed.data kept as it is unless it is a client field
CanonicalEntryAsIs(e) == IF e.k \in ClientOnlyFields THEN <<>> ELSE <<e>>

\* one entry of parsed.data in the canonical mapping: dropped when it is a
\* client field, null, or a string that is blank; strings are trimmed
CanonicalEntry(e) ==
  IF e.k \in ClientOnlyFields \/ e.v.t = "null" THEN <<>>
  ELSE IF ~IsStr(e.v) THEN <<e>>
  ELSE IF Truthy(Trim(e.v.s)) THEN <<[k |-> e.k, v |-> ValStr(Trim(e.v.s))]>>
  ELSE <<>>

RECURSIVE Canonical(_)
Canonical(data) ==
  IF data = <<>> THEN <<>> ELSE CanonicalEntry(Head(data)) \o Canonical(Tail(data))

CanonicalFrom(content, canonical) ==
  IF canonical # <<>> THEN StringifyOrThrow(content, canonical) ELSE Returned(content)

\* toCanonicalPromptFormat(raw): [text, threw]
toCanonicalPromptFormat(raw) ==
  IF Matter(raw).err THEN Threw
  ELSE CanonicalFrom(Trim(Matter(raw).content), Canonical(Matter(raw).data))

\* normalizePromptFile(raw)
normalizePromptFile(raw) == toCanonicalPromptFormat(raw)

\* the locations collectLocalPrompts reads
PromptLocations ==
  << [dir |-> Dir("tgt", <<".claude", "commands">>), stripExt |-> <<".md">>],
     [dir |-> Dir("tgt", <<".github", "prompts">>), stripExt |-> <<".prompt", ".md">>] >>

\* glob('rulekit-*' + stripExt, { cwd: loc.dir })
GlobRulekit(w, loc) ==
  {q \in DOMAIN w.fs :
     /\ DirOf(q) = loc.dir
     /\ Head(q.name) = RulekitPrefix
     /\ Len(q.name) > Len(loc.stripExt)
     /\ EndsWith(q.name, loc.stripExt)}

\* file.replace('rulekit-', '').replace(loc.stripExt, '')
PromptName(file, stripExt) == ReplaceFirst(ReplaceFirst(file, <<RulekitPrefix>>, <<>>), stripExt, <<>>)

\* one entry of candidates: canonical is [text, threw]
CandidateFrom(name, canonical, mtimeMs) ==
  [name |-> name,
   canonical |-> canonical.text,
   content |-> Trim(Matter(canonical.text).content),
   mtime |-> mtimeMs,
   threw |-> canonical.threw \/ Matter(canonical.text).err]

Candidate(w, q, loc) ==
  CandidateFrom(PromptName(q.name, loc.stripExt), toCanonicalPromptFormat(ReadFile(w, q)), w.mtime[q])

RECURSIVE CandidatesOf(_, _, _)
CandidatesOf(w, files, loc) ==
  IF files = <<>> THEN <<>>
  ELSE <<Candidate(w, Head(files), loc)>> \o CandidatesOf(w, Tail(files), loc)

CandidatesIn(w, loc, rev) ==
  IF ~DirExists(w, loc.dir) THEN <<>>
  ELSE CandidatesOf(w, GlobOrder(GlobRulekit(w, loc), rev), loc)

\* every candidate, in the order the two loops push them
Candidates(w, rev) ==
  CandidatesIn(w, PromptLocations[1], rev) \o CandidatesIn(w, PromptLocations[2], rev)

\* candidates.get(name)
EntriesOf(cands, name) ==
  LET idx == {i \in 1..Len(cands) : cands[i].name = name}
  IN [n \in 1..Cardinality(idx) |->
        cands[CHOOSE i \in idx : Cardinality({k \in idx : k < i}) = n - 1]]

FirstWhere(entries, idx) == entries[CHOOSE i \in idx : \A k \in idx : i <= k]

\* entries.find(e => e.canonical.includes('---')) or entries[0]
PreferFrontmatter(entries) ==
  IF \E i \in 1..Len(entries) : Includes(entries[i].canonical, Fence)
    THEN FirstWhere(entries, {i \in 1..Len(entries) : Includes(entries[i].canonical, Fence)})
    ELSE entries[1]

\* entries.sort((a, b) => a.mtime - b.mtime)[0]: the oldest copy first
LeastRecent(entries) ==
  FirstWhere(entries, {i \in 1..Len(entries) :
                         \A k \in 1..Len(entries) : entries[k].mtime >= entries[i].mtime})

\* entries.sort((a, b) => b.mtime - a.mtime)[0]: the sort is stable
MostRecent(entries) ==
  FirstWhere(entries, {i \in 1..Len(entries) :
                         \A k \in 1..Len(entries) : entries[k].mtime <= entries[i].mtime})

\* the entry the result takes for one name
Chosen(entries) ==
  IF Cardinality({entries[i].content : i \in 1..Len(entries)}) = 1
    THEN PreferFrontmatter(entries)
    ELSE MostRecent(entries)

\* the names in the order the Map first saw them
RECURSIVE NamesOf(_, _)
NamesOf(cands, seen) ==
  IF cands = <<>> THEN <<>>
  ELSE IF Head(cands).name \in seen THEN NamesOf(Tail(cands), seen)
  ELSE <<Head(cands).name>> \o NamesOf(Tail(cands), seen \cup {Head(cands).name})

ResultOf(cands, names) ==
  [n \in 1..Len(names) |->
     [name |-> names[n], canonical |-> Chosen(EntriesOf(cands, names[n])).canonical]]

CollectFrom(cands) ==
  [prompts |-> ResultOf(cands, NamesOf(cands, {})),
   threw |-> \E i \in 1..Len(cands) : cands[i].threw]

collectLocalPromptsThrows(w, rev) ==
  \E i \in 1..Len(Candidates(w, rev)) : Candidates(w, rev)[i].threw

\* the names console.warn reports as differing across client locations
WarnedNames(cands) ==
  {cands[i].name : i \in {k \in 1..Len(cands) :
                             \E j \in 1..Len(cands) :
                               cands[j].name = cands[k].name /\ cands[j].content # cands[k].content}}

Warnings(w, rev) ==
  IF collectLocalPromptsThrows(w, rev) THEN {} ELSE WarnedNames(Candidates(w, rev))

\* collectLocalPrompts(targetPath): [prompts, threw], prompts the entries
\* [name, canonical] of the Map in its order
collectLocalPrompts(w, rev) == CollectFrom(Candidates(w, rev))

\* glob('prompts/*', { cwd: tempDir }): the entries that are directories
\* (a file among them never holds `${name}.md`)
ClonePromptDirs(w) ==
  {d \in SubDirs(w, Dir("tmp", <<"prompts">>)) : Last(d.dir) \notin DotSegments}

\* canonicalContent.endsWith('\n') ? canonicalContent : canonicalContent + '\n'
PromptOutput(canonicalContent) ==
  IF EndsWith(canonicalContent, <<NL>>) THEN canonicalContent ELSE canonicalContent \o <<NL>>

SourceFile(promptDir, name) == File("tmp", promptDir.dir, name \o <<".md">>)

\* the body of `if (await fs.pathExists(sourceFile))` without the comparison
CompareAndWriteAlways(r, sourceFile, canonicalContent, existingNormalized) ==
  IF existingNormalized.threw THEN [r EXCEPT !.threw = TRUE, !.found = TRUE]
  ELSE [w |-> WriteFile(r.w, sourceFile, PromptOutput(canonicalContent)),
        changed |-> TRUE, threw |-> FALSE, found |-> TRUE]

\* the body of `if (await fs.pathExists(sourceFile))`: r is [w, changed,
\* threw, found]
CompareAndWrite(r, sourceFile, canonicalContent, existingNormalized) ==
  IF existingNormalized.threw THEN [r EXCEPT !.threw = TRUE, !.found = TRUE]
  ELSE IF canonicalContent # existingNormalized.text
    THEN [w |-> WriteFile(r.w, sourceFile, PromptOutput(canonicalContent)),
          changed |-> TRUE, threw |-> FALSE, found |-> TRUE]
  ELSE [r EXCEPT !.found = TRUE]

PushIntoDir(r, promptDir, prompt) ==
  IF r.threw \/ ~FileExists(r.w, SourceFile(promptDir, prompt.name)) THEN r
  ELSE CompareAndWrite(r, SourceFile(promptDir, prompt.name), prompt.canonical,
                       normalizePromptFile(ReadFile(r.w, SourceFile(promptDir, prompt.name))))

RECURSIVE PushIntoDirs(_, _, _)
PushIntoDirs(r, promptDirs, prompt) ==
  IF promptDirs = <<>> THEN r
  ELSE PushIntoDirs(PushIntoDir(r, Head(promptDirs), prompt), Tail(promptDirs), prompt)

\* promptStack || 'common'
TargetStack(promptStack) == IF promptStack # "" THEN promptStack ELSE "common"

\* if (!found) { ... }
CreateIfNotFound(r, newFile, canonicalContent) ==
  IF r.threw \/ r.found THEN r
  ELSE [w |-> WriteFile(EnsureDir(r.w, DirOf(newFile)), newFile, PromptOutput(canonicalContent)),
        changed |-> TRUE, threw |-> FALSE, found |-> FALSE]

\* the body of the outer loop of pushPrompts for one local prompt
PushPrompt(r, promptDirs, prompt, promptStack) ==
  CreateIfNotFound(PushIntoDirs([r EXCEPT !.found = FALSE], promptDirs, prompt),
                   File("tmp", <<"prompts", TargetStack(promptStack)>>, prompt.name \o <<".md">>),
                   prompt.canonical)

RECURSIVE PushLocalPrompts(_, _, _, _)
PushLocalPrompts(r, promptDirs, prompts, promptStack) ==
  IF r.threw \/ prompts = <<>> THEN r
  ELSE PushLocalPrompts(PushPrompt(r, promptDirs, Head(prompts), promptStack),
                        promptDirs, Tail(prompts), promptStack)

WithoutFound(r) == [w |-> r.w, changed |-> r.changed, threw |-> r.threw]

PushCollected(w, localPrompts, promptStack) ==
  IF localPrompts.threw THEN Failed(w)
  ELSE IF Len(localPrompts.prompts) = 0 THEN Unchanged(w)
  ELSE WithoutFound(PushLocalPrompts([w |-> w, changed |-> FALSE, threw |-> FALSE, found |-> FALSE],
                                     SetToSeq(ClonePromptDirs(w)), localPrompts.prompts, promptStack))

\* pushPrompts(targetPath, tempDir, promptStack)
pushPrompts(w, promptStack, rev) == PushCollected(w, collectLocalPrompts(w, rev), promptStack)

(***************************************************************************)
(* push: skills                                                             *)
(***************************************************************************)
LocalSkillsDir == Dir("tgt", <<".claude", "skills">>)

\* the loop body of pushSkills for one entry that is a directory
PushSkill(r, localSkill) ==
  IF ~FileExists(r.w, File("tgt", localSkill.dir, SkillMd)) THEN r
  ELSE Wrote(CopyTree(EnsureDir(r.w, Dir("tmp", <<"skills", Last(localSkill.dir)>>)),
                      localSkill, Dir("tmp", <<"skills", Last(localSkill.dir)>>)))

RECURSIVE PushSkillDirs(_, _)
PushSkillDirs(r, entries) ==
  IF entries = <<>> THEN r ELSE PushSkillDirs(PushSkill(r, Head(entries)), Tail(entries))

\* pushSkills(targetPath, tempDir)
pushSkills(w) ==
  IF ~DirExists(w, LocalSkillsDir) THEN Unchanged(w)
  ELSE PushSkillDirs(Unchanged(w), SetToSeq(SubDirs(w, LocalSkillsDir)))

(***************************************************************************)
(* Properties of sync                                                       *)
(***************************************************************************)
\* C7: an operation of sync that runs again over unchanged sources leaves
\* every file as it was after its first run
C7_SyncIdempotent == [][ret'.again => fs' = fs]_vars

\* a second syncRules has run over a target whose AGENTS.md the first one
\* had replaced
C7_Witness ==
  /\ ret.last = "rules" /\ ret.again /\ ~ret.threw
  /\ File("tgt", <<>>, <<"CLAUDE", ".md">>) \in DOMAIN fs
  /\ File("tgt", <<>>, AgentsName) \in DOMAIN fs
  /\ fs[File("tgt", <<>>, AgentsName)] # <<"old", NL>>

\* the body of a source rule file: its text after the front matter
BodyOf(raw) == Matter(raw).content

HasText(body) == Trim(body) # <<>>

RuleDirs == {<<>>, <<"docs">>}

SrcRule(rel, stack) == File("src", <<"rules">> \o rel, RuleName(stack))

\* both layers are there for this path, each with text in its body
BothLayers(rel) ==
  /\ args.stack # "common"
  /\ SrcRule(rel, "common") \in DOMAIN fs
  /\ SrcRule(rel, args.stack) \in DOMAIN fs
  /\ HasText(BodyOf(fs[SrcRule(rel, "common")]))
  /\ HasText(BodyOf(fs[SrcRule(rel, args.stack)]))

\* `---\nstack: <stack>\n---\n`, a blank line, then common, separator, stack
ExpectedMerged(rel) ==
  <<DASH, DASH, DASH, NL, "stack", COLON, SP, args.stack, NL, DASH, DASH, DASH, NL, NL>>
  \o Trim(BodyOf(fs[SrcRule(rel, "common")]))
  \o <<NL, NL, DASH, DASH, DASH, NL, NL>>
  \o Trim(BodyOf(fs[SrcRule(rel, args.stack)]))
  \o <<NL>>

WrittenAgents ==
  {q \in DOMAIN fs : q.root = "tgt" /\ q.name = AgentsName /\ mtime[q] = Now}

\* C10: every AGENTS.md syncRules writes is for a path that has a common
\* rule file or one of the selected stack, and has text after its front
\* matter
C10_NoEmptyDocument ==
  \A q \in WrittenAgents :
    /\ \/ SrcRule(q.dir, "common") \in DOMAIN fs
       \/ SrcRule(q.dir, args.stack) \in DOMAIN fs
    /\ Matter(fs[q]).content \notin {<<>>, <<NL>>}

\* syncRules has completed over a tree where docs/ holds a rule file of
\* another stack only, and has written the root document but none for docs/
C10_Witness ==
  /\ Completed("rules")
  /\ args.stack = "common"
  /\ SrcRule(<<"docs">>, "vue") \in DOMAIN fs
  /\ SrcRule(<<"docs">>, "common") \notin DOMAIN fs
  /\ HasText(fs[SrcRule(<<"docs">>, "vue")])
  /\ File("tgt", <<>>, AgentsName) \in WrittenAgents
  /\ File("tgt", <<"docs">>, AgentsName) \notin DOMAIN fs

\* the files of the target tree with their text and time, and its directories
TargetFiles(f) == [q \in {p \in DOMAIN f : p.root = "tgt"} |-> f[q]]

TargetDirs(ds) == {d \in ds : d.root = "tgt"}

\* the step ended normally and left the target tree as it was
LeavesTargetAlone ==
  /\ ~ret'.threw
  /\ TargetFiles(fs') = TargetFiles(fs)
  /\ TargetFiles(mtime') = TargetFiles(mtime)
  /\ TargetDirs(dirs') = TargetDirs(dirs)

NoPromptsDir == ~DirExists(W, PromptsDir("common")) /\ ~DirExists(W, PromptsDir(args.stack))

\* C11: each of syncRules, syncPrompts and syncSkills, run when its source
\* directory (rules/; prompts/common and prompts/<stack>; skills/) does not
\* exist, completes without error and creates or modifies no file and no
\* directory of the target tree.
C11_MissingSourceIsNoOp ==
  [][/\ (pc = "rules" /\ ~DirExists(W, RulesDir)) => LeavesTargetAlone
     /\ (pc = "prompts" /\ NoPromptsDir) => LeavesTargetAlone
     /\ (pc = "skills" /\ ~DirExists(W, SkillsDir)) => LeavesTargetAlone]_vars

\* the three operations have all run over a checkout that has none of the
\* source directories, beside a target that held files before
C11_Witness ==
  /\ pc = "done"
  /\ Completed("rules") /\ Completed("prompts") /\ Completed("skills")
  /\ ~DirExists(W, RulesDir) /\ NoPromptsDir /\ ~DirExists(W, SkillsDir)
  /\ File("tgt", <<>>, <<"CLAUDE", ".md">>) \in DOMAIN fs

(***************************************************************************)
(* SpecMerge: two bodies merged into a document as syncRules does, and the  *)
(* document split again as pushRules does.                                  *)
(***************************************************************************)
\* how many parts a body is made of at most
MaxParts == 3

BodyParts == {<<"a">>, <<"b">>, <<NL>>, MergeSeparator, Fence}

\* the texts made of at most n parts
RECURSIVE TextsOf(_, _)
TextsOf(parts, n) ==
  IF n = 0 THEN {<<>>}
  ELSE TextsOf(parts, n - 1) \cup {b \o part : b \in TextsOf(parts, n - 1), part \in parts}

\* the non-empty bodies
Bodies == {b \in TextsOf(BodyParts, MaxParts) : Truthy(b)}

InitMerge ==
  /\ \E c \in Bodies, s \in Bodies : args = [c |-> c, s |-> s, stack |-> "vue"]
  /\ pc = "bodies"
  /\ ret = [doc |-> <<>>, section |-> <<>>, of |-> "none"]
  /\ fs = <<>> /\ dirs = {} /\ mtime = <<>> /\ log = {}

\* sync.ts 41-45: the document syncRules writes for the two bodies
Merge ==
  /\ pc = "bodies"
  /\ pc' = "merged"
  /\ ret' = [ret EXCEPT !.doc = MatterStringify(<<NL>> \o mergeContent(args.c, args.s),
                                                StackFrontmatter(args.stack))]
  /\ UNCHANGED <<fs, dirs, mtime, args, log>>

\* push.ts 126-137: the section pushRules takes from the document
SplitFor(stack) ==
  /\ pc = "merged"
  /\ pc' = "split"
  /\ ret' = [ret EXCEPT !.section = RootSection(Sections(Matter(ret.doc).content), stack),
                        !.of = stack]
  /\ UNCHANGED <<fs, dirs, mtime, args, log>>

SplitStack == SplitFor(args.stack)

SplitCommon == SplitFor("common")

NextMerge == Merge \/ SplitStack \/ SplitCommon

SpecMerge == InitMerge /\ [][NextMerge]_vars

\* C8: splitting the merged document for the stack gives back the stack
\* body trimmed, and splitting it for common gives back the common body
\* trimmed, whatever the two non-empty bodies are
C8_MergeSplitInverse ==
  pc = "split" =>
    ret.section = Trim(IF ret.of = "common" THEN args.c ELSE args.s)

(***************************************************************************)
(* SpecResolve: resolveStack over a target that holds a .env file, an       *)
(* AGENTS.md, both or neither.                                              *)
(***************************************************************************)
\* how many parts a .env file is made of at most
MaxEnvParts == 3

EnvParts ==
  { <<RulekitStack, EQ>>, <<RulekitStack, SP, EQ, SP>>, <<"vue">>, <<QUOTE, "vue", QUOTE>>,
    <<NL>>, <<SP>>, <<HASH>>, <<"PORT", EQ, "3000">> }

EnvDocs == TextsOf(EnvParts, MaxEnvParts)

\* AGENTS.md as sync writes it for vue and for common, hand-written without
\* front matter, with a stack that is no string, and with a block js-yaml
\* rejects
AgentsDocs ==
  { FmBlock(FmLine("stack", <<"vue">>)) \o <<NL, "a", NL>>,
    FmBlock(FmLine("stack", <<"common">>)) \o <<NL, "a", NL>>,
    <<"a", NL>>,
    FmBlock(FmLine("stack", <<"3">>)) \o <<"a", NL>>,
    FmBlock(FmLine("stack", <<"v", COLON, SP, "w">>)) \o <<"a", NL>> }

ExplicitStacks == {<<>>, <<"nuxt">>}

ResolveTrees ==
  {<<>>} \cup [{EnvFile} -> EnvDocs] \cup [{TargetAgents(<<>>)} -> AgentsDocs]
  \cup {[q \in {EnvFile, TargetAgents(<<>>)} |-> IF q = EnvFile THEN e ELSE a] :
          e \in EnvDocs, a \in AgentsDocs}

InitResolve ==
  /\ \E t \in ResolveTrees :
       fs = MkWorld(t, 1).fs /\ dirs = MkWorld(t, 1).dirs /\ mtime = MkWorld(t, 1).mtime
  /\ \E e \in ExplicitStacks : args = [explicit |-> e]
  /\ pc = "resolve"
  /\ ret = [value |-> <<>>, threw |-> FALSE]
  /\ log = {}

ResolveStack ==
  /\ pc = "resolve"
  /\ pc' = "resolved"
  /\ ret' = resolveStack(args.explicit, W)
  /\ UNCHANGED <<fs, dirs, mtime, args, log>>

NextResolve == ResolveStack

SpecResolve == InitResolve /\ [][NextResolve]_vars

\* what a line of the .env file assigns to RULEKIT_STACK: the text after
\* `=` on that line, trimmed and unquoted; <<>> for any other line
AssignedOnLine(line) ==
  IF line # <<>> /\ Head(line) = RulekitStack
     /\ TrimStartIn(Tail(line), {SP}) # <<>> /\ Head(TrimStartIn(Tail(line), {SP})) = EQ
  THEN StripQuotes(Trim(Tail(TrimStartIn(Tail(line), {SP}))))
  ELSE <<>>

\* the non-empty values the .env file assigns to RULEKIT_STACK
EnvValues ==
  IF EnvFile \notin DOMAIN fs THEN {}
  ELSE {AssignedOnLine(Split(fs[EnvFile], <<NL>>)[n]) :
          n \in 1..Len(Split(fs[EnvFile], <<NL>>))} \ {<<>>}

\* the stack metadata of AGENTS.md when it is a string other than "common"
AgentsStack ==
  IF TargetAgents(<<>>) \notin DOMAIN fs THEN <<>>
  ELSE StackOfData(Matter(fs[TargetAgents(<<>>)]).data)

\* C1: what resolveStack returns is the explicit value when there is one,
\* else a value that .env assigns to RULEKIT_STACK when there is one, else
\* the stack of AGENTS.md when it is a string other than "common", else
\* "common"
C1_PriorityChain ==
  (pc = "resolved" /\ ~ret.threw) =>
    IF Truthy(args.explicit) THEN ret.value = args.explicit
    ELSE IF EnvValues # {} THEN ret.value \in EnvValues
    ELSE ret.value = (IF Truthy(AgentsStack) THEN AgentsStack ELSE <<"common">>)

(***************************************************************************)
(* Spec: one invocation of pushChanges.  The rulekit repository on GitHub   *)
(* is the tree under "src"; git clone copies it to the scratch clone "tmp"  *)
(* (targetPath/.rulekit-push-tmp).  Every external command may fail.  log   *)
(* is the sequence of steps taken; ret holds the error thrown ("none"       *)
(* while there is none), hasChanges, the staged diff, the answer given to   *)
(* the confirmation, and what has reached the remote.                       *)
(***************************************************************************)
TempDir == Dir("tmp", <<>>)

Remote == Dir("src", <<>>)

\* the files of a tree, by their path below its root
TreeOf(w, root) ==
  {[dir |-> q.dir, name |-> q.name, text |-> w.fs[q]] : q \in {x \in DOMAIN w.fs : x.root = root}}

\* `git add -A; git diff --cached --quiet || echo changed`: the clone's
\* files differ from the commit that was cloned
StagedDiff(w) == TreeOf(w, "tmp") # TreeOf(w, "src")

\* String.prototype.toLowerCase
LowerCase(text) ==
  [i \in 1..Len(text) |-> IF text[i] = "Y" THEN "y" ELSE IF text[i] = "N" THEN "n" ELSE text[i]]

\* every answer confirms
ConfirmedWhateverAnswer(answer) == TRUE

\* confirmCommonStack: answer.trim().toLowerCase() === 'y'
Confirmed(answer) == LowerCase(Trim(answer)) = <<"y">>

\* if (stack === 'common' && !stackExplicit)
NeedsConfirmation(stack, stackExplicit) == stack = "common" /\ ~stackExplicit

\* the failure of `gh auth status` is swallowed
AfterAuthUnchecked(ok, next) == next

\* assertGhInstalled() runs before the try block: when it throws, nothing
\* else runs
AfterAuth(ok, next) == IF ok THEN next ELSE "failed"

\* a failure that skips the finally block
AfterSkippingFinally(ok, next) == IF ok THEN next ELSE "failed"

\* a failure that is swallowed
AfterIgnoringFailure(ok, next) == next

\* a step inside the try block: on to `next`, or to the finally block when
\* it threw
After(ok, next) == IF ok THEN next ELSE "cleanup"

\* ret.error once a step has run
ErrorAfter(ok, step) == IF ok \/ ret.error # "none" THEN ret.error ELSE step

\* the commit is made whatever is staged
AfterDiffAlways(staged) == "commit"

\* if (!staged) return
AfterDiff(staged) == IF staged THEN "commit" ELSE "cleanup"

\* type === 'all' || type === <helper>
Invokes(type, helper) == type = "all" \/ type = helper

Answers == {<<"y">>, <<"Y">>, <<SP, "y", NL>>, <<"n">>, <<"yes">>, <<>>}

PushTypes == {"all", "rules", "prompts", "skills"}

\* the repository: a rule file per stack, a prompt and a skill
RemoteTree ==
  (File("src", <<"rules">>, RuleName("common")) :> CanonicalRule(<<"c">>, "common"))
  @@ (File("src", <<"rules">>, RuleName("vue")) :> CanonicalRule(<<"v">>, "vue"))
  @@ (File("src", <<"prompts", "common">>, <<"x", ".md">>) :> <<"e", NL>>)
  @@ (File("src", <<"skills", "s">>, SkillMd) :> <<"e", NL>>)

\* what the target's files may hold: the document sync wrote for vue, the
\* same with its stack section edited, a block js-yaml rejects, plain text
PushDocs ==
  { FmBlock(FmLine("stack", <<"vue">>)) \o <<NL, "c">> \o MergeSeparator \o <<"v", NL>>,
    FmBlock(FmLine("stack", <<"vue">>)) \o <<NL, "c">> \o MergeSeparator \o <<"w", NL>>,
    FmBlock(FmLine("k", <<"v", COLON, SP, "w">>)) \o <<"a", NL>>,
    <<"e", NL>> }

PushFilePaths ==
  { TargetAgents(<<>>),
    TargetAgents(<<"docs">>),
    File("tgt", <<".claude", "commands">>, <<RulekitPrefix, "x", ".md">>),
    File("tgt", <<".claude", "skills", "s">>, SkillMd) }

PushTrees == Placements(PushFilePaths, PushDocs)

Init ==
  /\ \E t \in PushTrees :
       LET w == Merge2(MkWorld(RemoteTree, 1), MkWorld(t, 1))
       IN fs = w.fs /\ dirs = w.dirs /\ mtime = w.mtime
  /\ \E k \in SyncStacks, x \in BOOLEAN, ty \in PushTypes :
       args = [stack |-> k, stackExplicit |-> x, type |-> ty, promptStack |-> "", rev |-> FALSE]
  /\ pc = "start"
  /\ ret = [error |-> "none", hasChanges |-> FALSE, staged |-> FALSE, answer |-> <<>>,
            committed |-> FALSE, pushed |-> FALSE, pr |-> FALSE]
  /\ log = <<>>

Into(w) == fs' = w.fs /\ dirs' = w.dirs /\ mtime' = w.mtime

\* an external command inside the try block that changes no file here
Exec(step, next) ==
  /\ \E ok \in BOOLEAN :
       /\ pc' = After(ok, next)
       /\ ret' = [ret EXCEPT !.error = ErrorAfter(ok, step),
                             !.committed = @ \/ (ok /\ step = "commit"),
                             !.pushed = @ \/ (ok /\ step = "push"),
                             !.pr = @ \/ (ok /\ step = "pr")]
  /\ log' = Append(log, step)
  /\ UNCHANGED <<fs, dirs, mtime, args>>

\* a diff helper that is invoked: r is what it returns and leaves
RunHelper(helper, r, next) ==
  /\ Into(r.w)
  /\ pc' = After(~r.threw, next)
  /\ ret' = [ret EXCEPT !.error = ErrorAfter(~r.threw, helper),
                        !.hasChanges = @ \/ (r.changed /\ ~r.threw)]
  /\ log' = Append(log, helper)
  /\ UNCHANGED args

\* a diff helper the type leaves out
SkipHelper(next) ==
  /\ pc' = next
  /\ UNCHANGED <<fs, dirs, mtime, args, ret, log>>

\* push.ts 29: execSync('gh auth status')
AssertGhInstalled ==
  /\ pc = "start"
  /\ \E ok \in BOOLEAN :
       /\ pc' = AfterAuth(ok, IF NeedsConfirmation(args.stack, args.stackExplicit)
                                THEN "confirm" ELSE "clone")
       /\ ret' = [ret EXCEPT !.error = ErrorAfter(ok, "auth")]
  /\ log' = Append(log, "auth")
  /\ UNCHANGED <<fs, dirs, mtime, args>>

\* push.ts 32-38: the question and the answer typed
ConfirmCommonStack ==
  /\ pc = "confirm"
  /\ \E answer \in Answers :
       /\ pc' = IF Confirmed(answer) THEN "clone" ELSE "cancelled"
       /\ ret' = [ret EXCEPT !.answer = answer]
  /\ log' = Append(log, "confirm")
  /\ UNCHANGED <<fs, dirs, mtime, args>>

\* push.ts 45: git clone; a clone that fails may leave its directory
GitClone ==
  /\ pc = "clone"
  /\ \E ok \in BOOLEAN, left \in BOOLEAN :
       /\ Into(IF ok THEN CopyTree(W, Remote, TempDir)
               ELSE IF left THEN EnsureDir(W, TempDir) ELSE W)
       /\ pc' = After(ok, "branch")
       /\ ret' = [ret EXCEPT !.error = ErrorAfter(ok, "clone")]
  /\ log' = Append(log, "clone")
  /\ UNCHANGED args

\* push.ts 50: git checkout -b
GitCheckout == pc = "branch" /\ Exec("branch", "rules")

\* push.ts 54-60
PushRules ==
  /\ pc = "rules"
  /\ IF Invokes(args.type, "rules")
       THEN RunHelper("rules", pushRules(W, args.stack), "prompts")
       ELSE SkipHelper("prompts")

\* push.ts 62-68
PushPrompts ==
  /\ pc = "prompts"
  /\ IF Invokes(args.type, "prompts")
       THEN RunHelper("prompts", pushPrompts(W, args.promptStack, args.rev), "skills")
       ELSE SkipHelper("skills")

\* if (!hasChanges) return
AfterHelpers(hasChanges) == IF hasChanges THEN "add" ELSE "cleanup"

RunSkills(r) == RunHelper("skills", r, AfterHelpers(ret.hasChanges \/ r.changed))

\* push.ts 70-81
PushSkills ==
  /\ pc = "skills"
  /\ IF Invokes(args.type, "skills")
       THEN RunSkills(pushSkills(W))
       ELSE SkipHelper(AfterHelpers(ret.hasChanges))

\* push.ts 85: git add -A
GitAdd == pc = "add" /\ Exec("add", "diff")

\* push.ts 86-93: git diff --cached --quiet || echo changed
GitDiff ==
  /\ pc = "diff"
  /\ pc' = AfterDiff(StagedDiff(W))
  /\ ret' = [ret EXCEPT !.staged = StagedDiff(W)]
  /\ log' = Append(log, "diff")
  /\ UNCHANGED <<fs, dirs, mtime, args>>

\* push.ts 95: git commit
GitCommit == pc = "commit" /\ Exec("commit", "push")

\* push.ts 96: git push -u origin <branch>
GitPush == pc = "push" /\ Exec("push", "pr")

\* push.ts 101-104: gh pr create
CreatePR == pc = "pr" /\ Exec("pr", "cleanup")

\* push.ts 106-109: finally { await fs.remove(tempDir) }, then the return or
\* the rethrow
Cleanup ==
  /\ pc = "cleanup"
  /\ Into(RemoveTree(W, TempDir))
  /\ pc' = IF ret.error = "none" THEN "done" ELSE "failed"
  /\ log' = Append(log, "cleanup")
  /\ UNCHANGED <<args, ret>>

Next ==
  \/ AssertGhInstalled \/ ConfirmCommonStack \/ GitClone \/ GitCheckout
  \/ PushRules \/ PushPrompts \/ PushSkills
  \/ GitAdd \/ GitDiff \/ GitCommit \/ GitPush \/ CreatePR \/ Cleanup

Spec == Init /\ [][Next]_vars

Terminal == pc \in {"done", "cancelled", "failed"}

(***************************************************************************)
(* Properties of pushChanges                                                *)
(***************************************************************************)
Took(step) == \E i \in 1..Len(log) : log[i] = step

CloneExists == TempDir \in dirs \/ \E q \in DOMAIN fs : q.root = "tmp"

\* C2: in every terminal state of pushChanges the scratch clone directory
\* does not exist
C2_NoCloneLeftBehind == Terminal => ~CloneExists

\* the push of a commit has failed, and the clone made before it is gone
C2_Witness ==
  /\ pc = "failed" /\ ret.error = "push" /\ ret.committed
  /\ Took("clone") /\ ~CloneExists

\* C3: the gh check is the first step taken, and when it fails the
\* invocation fails there: no clone, branch, write, commit, push or PR
C3_AuthFirst ==
  /\ (log # <<>> => log[1] = "auth")
  /\ (ret.error = "auth" =>
        /\ pc = "failed"
        /\ log = <<"auth">>
        /\ ~CloneExists
        /\ ~ret.committed /\ ~ret.pushed /\ ~ret.pr)

\* the gh check has failed for a target that has changes to push
C3_Witness ==
  /\ ret.error = "auth" /\ pc = "failed"
  /\ TargetAgents(<<>>) \in DOMAIN fs
  /\ args.type = "all"

\* the answers that confirm: y in either case, white space around it
ConfirmingAnswers == {<<"y">>, <<"Y">>, <<SP, "y", NL>>}

\* the confirmation is asked right after the gh check, if and only if the
\* stack is common and was not given explicitly
C4_AskedWhenDefaulted ==
  /\ (Took("confirm") => NeedsConfirmation(args.stack, args.stackExplicit) /\ log[2] = "confirm")
  /\ (Took("clone") /\ NeedsConfirmation(args.stack, args.stackExplicit) => Took("confirm"))

\* the invocation has returned without error at the confirmation
C4_Cancelled ==
  /\ pc = "cancelled"
  /\ ret.error = "none"
  /\ log = <<"auth", "confirm">>
  /\ ~CloneExists
  /\ ~ret.committed /\ ~ret.pushed /\ ~ret.pr

\* C4 (as the code has it): the confirmation is asked exactly when the stack
\* defaulted to common, before any clone; an answer that, trimmed and in
\* lower case, is not "y" ends the invocation without error and without a
\* clone, commit, push or PR
C4_ConfirmationGate ==
  /\ C4_AskedWhenDefaulted
  /\ (Took("confirm") /\ ret.answer \notin ConfirmingAnswers => C4_Cancelled)

\* the answer "yes" has cancelled the push
C4_Witness == pc = "cancelled" /\ ret.answer = <<"yes">> /\ args.stack = "common"

\* C4 (as stated): any answer other than "y" ends the invocation without
\* error and without a clone
C4_AnythingButY ==
  /\ C4_AskedWhenDefaulted
  /\ (Took("confirm") /\ ret.answer # <<"y">> => C4_Cancelled)

StepOrder ==
  <<"auth", "confirm", "clone", "branch", "rules", "prompts", "skills",
    "add", "diff", "commit", "push", "pr", "cleanup">>

Rank(step) == CHOOSE i \in 1..Len(StepOrder) : StepOrder[i] = step

\* C5: the steps taken are in the order clone, branch, rules, prompts,
\* skills, commit, push, PR, cleanup; a commit is made only when a helper
\* that was invoked reported a change and the staged diff is not empty;
\* the push follows the commit and the PR the push of the same invocation
C5_StepOrder ==
  /\ \A i, j \in 1..Len(log) : i < j => Rank(log[i]) < Rank(log[j])
  /\ (Took("commit") => ret.hasChanges /\ ret.staged)
  /\ (Took("commit") => \E h \in {"rules", "prompts", "skills"} : Took(h) /\ Invokes(args.type, h))
  /\ (Took("push") => ret.committed)
  /\ (Took("pr") => ret.committed /\ ret.pushed)
  /\ (Took("branch") => Took("clone"))
  /\ (Took("cleanup") => Took("clone"))
  /\ (pc = "done" => Last(log) = "cleanup")

\* a whole push: every step of the workflow, in its order, up to the PR
C5_Witness ==
  /\ pc = "done" /\ ret.pr
  /\ log = <<"auth", "clone", "branch", "rules", "prompts", "skills",
             "add", "diff", "commit", "push", "pr", "cleanup">>

NoStepTwice == \A i, j \in 1..Len(log) : log[i] = log[j] => i = j

\* C6: once a command has failed the invocation takes no other step than
\* the cleanup, nothing more reaches the remote, no command is run twice,
\* and the invocation ends in the error
C6_FailFast ==
  /\ [](NoStepTwice /\ (Terminal /\ ret.error # "none" => pc = "failed")
                    /\ (pc = "failed" => ret.error # "none"))
  /\ [][ret.error # "none" =>
          /\ ret' = ret
          /\ log' \in {log, Append(log, "cleanup")}
          /\ pc' \in {pc, "cleanup", "failed"}]_vars

\* the commit has failed: the cleanup follows it and nothing was pushed
C6_Witness ==
  /\ pc = "failed" /\ ret.error = "commit"
  /\ Len(log) >= 2 /\ log[Len(log) - 1] = "commit" /\ Last(log) = "cleanup"
  /\ ~ret.pushed /\ ~ret.pr

(***************************************************************************)
(* SpecGenerate: one prompt source handed to one of the three generators.   *)
(* args is the source text and the logical name, ret the generator that     *)
(* ran and what it returned.                                                *)
(***************************************************************************)
\* how many lines the metadata block of a source holds at most
MaxFields == 2

\* the lines a source's block is made of: the fields the generators look
\* at, a field of the user's own, and a description left empty
FieldLines ==
  { FmLine("name", <<"n">>),
    FmLine("description", <<"d">>),
    FmLine("description", <<>>),
    FmLine("agent", <<"a">>),
    FmLine("allowed-tools", <<"t">>),
    FmLine("argument-hint", <<"h">>),
    FmLine("model", <<"m">>),
    FmLine("custom", <<"v">>) }

\* bodies: heading and text, plain text, text that opens with a horizontal
\* rule, text that opens with a fenced `key: value` line, text inside white
\* space, a heading alone, a heading mark with no heading, nothing
PromptBodies ==
  { <<HASH, SP, "T", NL, NL, "b", NL>>,
    <<"b">>,
    Fence \o <<NL, NL>> \o Fence \o <<NL, "b">>,
    FmBlock(FmLine("extra", <<"e">>)) \o <<"b", NL>>,
    <<NL, "b", SP, NL>>,
    <<HASH, SP, "T">>,
    <<HASH, SP, NL, "b">>,
    <<>> }

SourceOf(block, body) == IF block = <<>> THEN body ELSE FmBlock(block) \o body

PromptSources ==
  {SourceOf(block, body) : block \in TextsOf(FieldLines, MaxFields), body \in PromptBodies}

LogicalNames == {<<"review">>}

InitGenerate ==
  /\ \E content \in PromptSources, name \in LogicalNames :
       args = [content |-> content, name |-> name]
  /\ pc = "source"
  /\ ret = [variant |-> "none", text |-> <<>>, threw |-> FALSE]
  /\ fs = <<>> /\ dirs = {} /\ mtime = <<>> /\ log = {}

Generated(variant, r) ==
  /\ pc = "source"
  /\ pc' = "generated"
  /\ ret' = [variant |-> variant, text |-> r.text, threw |-> r.threw]
  /\ UNCHANGED <<fs, dirs, mtime, args, log>>

GenerateCursor == Generated("cursor", generateCursorCommand(args.content))

GenerateVSCode == Generated("vscode", generateVSCodePrompt(args.content, args.name))

GenerateClaude == Generated("claude", generateClaudeCodeCommand(args.content, args.name))

NextGenerate == GenerateCursor \/ GenerateVSCode \/ GenerateClaude

SpecGenerate == InitGenerate /\ [][NextGenerate]_vars

(***************************************************************************)
(* SpecHelpers: one call of collectLocalPrompts, pushPrompts or pushSkills  *)
(* over a project ("tgt") and a clone of the rulekit repository ("tmp").    *)
(* The client copies of a prompt carry modification times of their own.     *)
(* ret is the helper that ran, what it returned and whether it threw; log   *)
(* the prompt names it warned about.                                        *)
(***************************************************************************)
Copy(path, text, t) == [path |-> path, text |-> text, mtime |-> t]

CopyAt(copies, q) == CHOOSE c \in copies : c.path = q

\* the world that holds these copies, no two at one path
WorldOf(copies) ==
  [fs |-> [q \in {c.path : c \in copies} |-> CopyAt(copies, q).text],
   dirs |-> Roots \cup {Dir("tmp", <<>>)} \cup UNION {Ancestors(DirOf(c.path)) : c \in copies},
   mtime |-> [q \in {c.path : c \in copies} |-> CopyAt(copies, q).mtime]]

\* no file at `path`, or one of `docs` last modified at one of `times`
CopiesAt(path, docs, times) == {{}} \cup {{Copy(path, d, t)} : d \in docs, t \in times}

ClientFile(client, name) ==
  IF client = "claude" THEN File("tgt", <<".claude", "commands">>, <<RulekitPrefix, name, ".md">>)
  ELSE IF client = "github"
    THEN File("tgt", <<".github", "prompts">>, <<RulekitPrefix, name, ".prompt", ".md">>)
  ELSE File("tgt", <<".cursor", "commands">>, <<RulekitPrefix, name, ".md">>)

TextOld == <<HASH, SP, "T", NL, NL, "old", NL>>

TextNew == <<HASH, SP, "T", NL, NL, "new", NL>>

\* client copies of a prompt: as synced without metadata, edited, as the
\* Claude Code and the VSCode generator write them, and with a block
\* js-yaml rejects
ClientDocs ==
  { TextOld,
    TextNew,
    FmBlock(FmLine("description", <<"T">>)) \o TextOld,
    FmBlock(FmLine("name", <<RulekitPrefix, "x">>) \o FmLine("description", <<"T">>)
            \o FmLine("agent", <<"agent">>)) \o TextNew,
    FmBlock(FmLine("k", <<"v", COLON, SP, "w">>)) \o <<"b">> }

\* what the VSCode location holds: the prompt as synced, or edited there
GithubDocs ==
  { TextOld,
    FmBlock(FmLine("name", <<RulekitPrefix, "x">>) \o FmLine("description", <<"T">>)
            \o FmLine("agent", <<"agent">>)) \o TextNew }

CursorDocs == { <<HASH, SP, "T", NL, NL, "cursor", NL>> }

Times == 1..MaxMtime

\* the project's prompt copies: x at any of the three client locations, y
\* at .claude/commands
LocalPromptCopies ==
  {a \cup b \cup c \cup y :
     a \in CopiesAt(ClientFile("claude", "x"), ClientDocs, Times),
     b \in CopiesAt(ClientFile("github", "x"), GithubDocs, Times),
     c \in CopiesAt(ClientFile("cursor", "x"), CursorDocs, Times),
     y \in CopiesAt(ClientFile("claude", "y"), {<<"y", NL>>}, {1})}

CloneFile(stack, name) == File("tmp", <<"prompts", stack>>, <<name, ".md">>)

\* the clone's prompts: none; x as the project has it; x with a client
\* field and padded values; x in two stacks; another prompt only
ClonePromptCopies ==
  { {},
    {Copy(CloneFile("common", "x"), TextOld, 1)},
    {Copy(CloneFile("common", "x"),
          FmBlock(FmLine("name", <<"n">>) \o FmLine("description", <<QUOTE, "T", SP, QUOTE>>))
          \o <<NL>> \o TextOld, 1)},
    {Copy(CloneFile("common", "x"), TextOld, 1), Copy(CloneFile("vue", "x"), TextNew, 1)},
    {Copy(CloneFile("vue", "y"), <<"y", NL>>, 1)} }

LocalSkillFile(skill, dir, name) == File("tgt", <<".claude", "skills", skill>> \o dir, name)

CloneSkillFile(skill, dir, name) == File("tmp", <<"skills", skill>> \o dir, name)

\* the project's skills: s with a SKILL.md or without, with a reference
\* file or without, and a directory that is no skill
LocalSkillCopies ==
  {a \cup b \cup c :
     a \in CopiesAt(LocalSkillFile("s", <<>>, SkillMd), SkillDocs, {1}),
     b \in CopiesAt(LocalSkillFile("s", <<"references">>, <<"r", ".md">>), {<<"r">>, <<"r2">>}, {1}),
     c \in CopiesAt(LocalSkillFile("t", <<>>, <<"notes", ".txt">>), {<<"n">>}, {1})}

CloneSkillCopies ==
  {a \cup b :
     a \in CopiesAt(CloneSkillFile("s", <<>>, SkillMd), SkillDocs, {1}),
     b \in CopiesAt(CloneSkillFile("s", <<"references">>, <<"r", ".md">>), {<<"r">>}, {1})}

PromptStacks == {"", "vue"}

\* the project and the clone vary in their prompts or in their skills
HelperInputs ==
  {[copies |-> l \cup k, promptStack |-> ps] :
     l \in LocalPromptCopies, k \in ClonePromptCopies, ps \in PromptStacks}
  \cup {[copies |-> l \cup k, promptStack |-> ""] :
     l \in LocalSkillCopies, k \in CloneSkillCopies}

InitHelpers ==
  /\ \E i \in HelperInputs :
       /\ fs = WorldOf(i.copies).fs
       /\ dirs = WorldOf(i.copies).dirs
       /\ mtime = WorldOf(i.copies).mtime
       /\ args = [promptStack |-> i.promptStack, rev |-> FALSE]
  /\ pc = "start"
  /\ ret = [op |-> "none", changed |-> FALSE, threw |-> FALSE, prompts |-> <<>>]
  /\ log = {}

\* a helper has run: r is [w, changed, threw]
Helped(op, r, prompts, warned) ==
  /\ pc = "start"
  /\ pc' = "returned"
  /\ fs' = r.w.fs /\ dirs' = r.w.dirs /\ mtime' = r.w.mtime
  /\ ret' = [op |-> op, changed |-> r.changed, threw |-> r.threw, prompts |-> prompts]
  /\ log' = warned
  /\ UNCHANGED args

CollectResult(collected) ==
  [w |-> W, changed |-> FALSE, threw |-> collected.threw]

CallCollectLocalPrompts ==
  Helped("collectLocalPrompts", CollectResult(collectLocalPrompts(W, args.rev)),
         IF collectLocalPrompts(W, args.rev).threw THEN <<>>
         ELSE collectLocalPrompts(W, args.rev).prompts,
         Warnings(W, args.rev))

CallPushPrompts ==
  Helped("pushPrompts", pushPrompts(W, args.promptStack, args.rev), <<>>, Warnings(W, args.rev))

CallPushSkills == Helped("pushSkills", pushSkills(W), <<>>, {})

NextHelpers == CallCollectLocalPrompts \/ CallPushPrompts \/ CallPushSkills

SpecHelpers == InitHelpers /\ [][NextHelpers]_vars

(***************************************************************************)
(* SpecCanonical: one client copy of a prompt converted to canonical form.  *)
(* args is the copy's text, ret what toCanonicalPromptFormat returned.      *)
(***************************************************************************)
\* the lines a client copy's block is made of: the two client fields, a
\* recognized and a custom field, a value inside white space, a value left
\* empty, an empty string, and a number
ClientFieldLines ==
  { FmLine("name", <<RulekitPrefix, "x">>),
    FmLine("agent", <<"agent">>),
    FmLine("description", <<"d">>),
    FmLine("custom", <<"v">>),
    FmLine("custom", <<QUOTE, SP, "v", SP, QUOTE>>),
    FmLine("model", <<>>),
    FmLine("model", <<QUOTE, QUOTE>>),
    FmLine("priority", <<"3">>) }

ClientBodies ==
  { <<"b", NL>>,
    <<NL, HASH, SP, "T", NL, NL, "b", SP>>,
    FmBlock(FmLine("extra", <<"e">>)) \o <<"b", NL>> }

ClientCopies ==
  {SourceOf(block, body) : block \in TextsOf(ClientFieldLines, MaxFields), body \in ClientBodies}

InitCanonical ==
  /\ \E raw \in ClientCopies : args = [content |-> raw]
  /\ pc = "raw"
  /\ ret = [text |-> <<>>, threw |-> FALSE]
  /\ fs = <<>> /\ dirs = {} /\ mtime = <<>> /\ log = {}

ToCanonical ==
  /\ pc = "raw"
  /\ pc' = "canonical"
  /\ ret' = toCanonicalPromptFormat(args.content)
  /\ UNCHANGED <<fs, dirs, mtime, args, log>>

\* normalizePromptFile on what was written: the comparison of the next push
Normalize ==
  /\ pc = "canonical" /\ ~ret.threw
  /\ pc' = "normalized"
  /\ ret' = normalizePromptFile(PromptOutput(ret.text))
  /\ UNCHANGED <<fs, dirs, mtime, args, log>>

NextCanonical == ToCanonical \/ Normalize

SpecCanonical == InitCanonical /\ [][NextCanonical]_vars

(***************************************************************************)
(* SpecPushRules: one call of pushRules over a project ("tgt") that holds   *)
(* AGENTS.md documents and a clone of the rulekit repository ("tmp").  ret  *)
(* is what the call returned and whether it threw.                          *)
(***************************************************************************)
\* an AGENTS.md as syncRules writes it: the stack front matter, a blank
\* line, the merged content
SyncedAgents(stack, merged) == FmBlock(FmLine("stack", <<stack>>)) \o <<NL>> \o merged

\* the guidance section of rules/common.md (part_010 16-25) and the section
\* after it
GuidanceText == GuidanceHeading \o <<NL, NL, "g", NL, NL, HASH, HASH, SP, "Code", NL, NL, "c">>

\* the root document: as synced for vue, with the stack section edited,
\* with the common section edited, as synced for common with the guidance
\* section, with a block js-yaml rejects
RootAgentsDocs ==
  { SyncedAgents("vue", <<"c">> \o MergeSeparator \o <<"v", NL>>),
    SyncedAgents("vue", <<"c">> \o MergeSeparator \o <<"w", NL>>),
    SyncedAgents("vue", <<"k">> \o MergeSeparator \o <<"v", NL>>),
    SyncedAgents("common", <<HASH, SP, "T", NL, NL>> \o GuidanceText \o <<NL>>),
    FmBlock(FmLine("k", <<"v", COLON, SP, "w">>)) \o <<"a", NL>> }

\* a document of a sub-directory: as synced for vue, the common layer
\* alone, with the guidance section in its common layer, with a block
\* js-yaml rejects
SubdirAgentsDocs ==
  { SyncedAgents("vue", <<"c">> \o MergeSeparator \o <<"v", NL>>),
    SyncedAgents("common", <<"c", NL>>),
    SyncedAgents("vue", GuidanceText \o MergeSeparator \o <<"v", NL>>),
    FmBlock(FmLine("k", <<"v", COLON, SP, "w">>)) \o <<"a", NL>> }

\* the project's documents: at the root, in docs/, and inside node_modules/
LocalAgentsCopies ==
  {a \cup b \cup c :
     a \in CopiesAt(TargetAgents(<<>>), RootAgentsDocs, {1}),
     b \in CopiesAt(TargetAgents(<<"docs">>), SubdirAgentsDocs, {1}),
     c \in CopiesAt(TargetAgents(<<"node_modules">>), {SyncedAgents("common", <<"m", NL>>)}, {1})}

\* the clone's rule files: what the synced documents were made from; files
\* written by hand, one of them of a third stack; a rules/ directory that
\* holds one file of another stack only; a clone with no rules/ directory
CloneRuleCopies ==
  { { Copy(CloneRuleFile(<<>>, "common"), CanonicalRule(<<"c">>, "common"), 1),
      Copy(CloneRuleFile(<<>>, "vue"), CanonicalRule(<<"v">>, "vue"), 1),
      Copy(CloneRuleFile(<<"docs">>, "common"), CanonicalRule(<<"c">>, "common"), 1),
      Copy(CloneRuleFile(<<"docs">>, "vue"), CanonicalRule(<<"v">>, "vue"), 1) },
    { Copy(CloneRuleFile(<<>>, "common"), <<"c", NL>>, 1),
      Copy(CloneRuleFile(<<>>, "vue"),
           FmBlock(FmLine("stack", <<"vue">>) \o FmLine("custom", <<"x">>)) \o <<"v", NL>>, 1),
      Copy(CloneRuleFile(<<"docs">>, "vue"),
           FmBlock(FmLine("stack", <<"vue">>) \o FmLine("custom", <<"x">>)) \o <<"v", NL>>, 1),
      Copy(CloneRuleFile(<<>>, "nuxt"), <<"n", NL>>, 1) },
    { Copy(CloneRuleFile(<<>>, "nuxt"), <<"n", NL>>, 1) },
    {} }

PushRulesInputs ==
  {[copies |-> l \cup k, stack |-> st] :
     l \in LocalAgentsCopies, k \in CloneRuleCopies, st \in SyncStacks}

InitPushRules ==
  /\ \E i \in PushRulesInputs :
       /\ fs = WorldOf(i.copies).fs
       /\ dirs = WorldOf(i.copies).dirs
       /\ mtime = WorldOf(i.copies).mtime
       /\ args = [stack |-> i.stack]
  /\ pc = "start"
  /\ ret = [changed |-> FALSE, threw |-> FALSE]
  /\ log = {}

\* pushRules has run: r is [w, changed, threw]
PushedRules(r) ==
  /\ pc = "start"
  /\ pc' = "returned"
  /\ fs' = r.w.fs /\ dirs' = r.w.dirs /\ mtime' = r.w.mtime
  /\ ret' = [changed |-> r.changed, threw |-> r.threw]
  /\ UNCHANGED <<args, log>>

CallPushRules == PushedRules(pushRules(W, args.stack))

NextPushRules == CallPushRules

SpecPushRules == InitPushRules /\ [][NextPushRules]_vars

(***************************************************************************)
(* SpecRoundTrip: a project is synced from a checkout (syncRules, then      *)
(* syncPrompts) and, with no file edited, pushed: resolveStack with no      *)
(* explicit stack, the clone of the repository the sync was made from, and  *)
(* pushPrompts.  ret holds what resolveStack and pushPrompts returned; log  *)
(* the steps taken.                                                         *)
(***************************************************************************)
RoundStacks == {"common", "vue", "3"}

\* the rule files of the checkout: none, the common layer, a stack's
\* layer, both
RoundRules ==
  { <<>>,
    (File("src", <<"rules">>, RuleName("common")) :> <<"a", NL>>),
    (File("src", <<"rules">>, RuleName("vue")) :> <<"v", NL>>),
    (File("src", <<"rules">>, RuleName("3")) :> <<"n", NL>>),
    (File("src", <<"rules">>, RuleName("common")) :> <<"a", NL>>)
      @@ (File("src", <<"rules">>, RuleName("vue")) :> <<"v", NL>>) }

\* prompt sources with and without a leading heading, with and without
\* metadata, with a client field, and with a block js-yaml rejects
RoundPromptDocs ==
  { <<HASH, SP, "T", NL, NL, "b", NL>>,
    <<"b", NL>>,
    FmBlock(FmLine("description", <<"d">>)) \o <<HASH, SP, "T", NL, NL, "b", NL>>,
    FmBlock(FmLine("description", <<"d">>)) \o <<"b", NL>>,
    FmBlock(FmLine("description", <<"d">>) \o FmLine("model", <<"m">>) \o FmLine("custom", <<"v">>))
      \o <<NL, "b", NL>>,
    FmBlock(FmLine("name", <<"n">>) \o FmLine("description", <<"d">>)) \o <<"b", NL>>,
    FmBlock(FmLine("k", <<"v", COLON, SP, "w">>)) \o <<"b">> }

\* the prompts of the checkout: x in prompts/common, and y in prompts/vue
\* or not
RoundPrompts ==
  {(File("src", <<"prompts", "common">>, <<"x", ".md">>) :> d) @@ y :
     d \in RoundPromptDocs,
     y \in {<<>>, (File("src", <<"prompts", "vue">>, <<"y", ".md">>) :> <<"y", NL>>)}}

\* what the project holds before the sync: nothing, a .env that names
\* another variable, or a .env that names the stack
RoundTargets ==
  { <<>>,
    (EnvFile :> <<"PORT", EQ, "3000", NL>>),
    (EnvFile :> <<RulekitStack, EQ, "nuxt", NL>>) }

InitRoundTrip ==
  /\ \E r \in RoundRules, q \in RoundPrompts, g \in RoundTargets, k \in RoundStacks :
       LET w == Merge2(MkWorld(r @@ q, 1), MkWorld(g, 1))
       IN /\ fs = w.fs /\ dirs = w.dirs /\ mtime = w.mtime
          /\ args = [stack |-> k, promptStack |-> "", rev |-> FALSE]
  /\ pc = "syncRules"
  /\ ret = [resolved |-> FALSE, stack |-> <<>>, pushed |-> FALSE, changed |-> FALSE]
  /\ log = <<>>

\* a step has run and left the world w; the command ends when it threw
Stepped(step, w, threw, next) ==
  /\ Into(w)
  /\ pc' = IF threw THEN "failed" ELSE next
  /\ log' = Append(log, step)
  /\ UNCHANGED args

\* part_012 41-44: syncRules(rulekitRoot, targetPath, stack)
RoundSyncRules ==
  /\ pc = "syncRules"
  /\ Stepped("syncRules", syncRules(W, args.stack).w, syncRules(W, args.stack).threw, "syncPrompts")
  /\ UNCHANGED ret

\* part_012 46-49: syncPrompts(rulekitRoot, targetPath, stack)
RoundSyncPrompts ==
  /\ pc = "syncPrompts"
  /\ Stepped("syncPrompts", syncPrompts(W, args.stack, args.rev).w,
             syncPrompts(W, args.stack, args.rev).threw, "resolve")
  /\ UNCHANGED ret

\* part_012 76: resolveStack(options.stack, targetPath) with no --stack
RoundResolveStack ==
  /\ pc = "resolve"
  /\ Stepped("resolve", W, resolveStack(<<>>, W).threw, "clone")
  /\ ret' = [ret EXCEPT !.resolved = ~resolveStack(<<>>, W).threw,
                        !.stack = resolveStack(<<>>, W).value]

\* push.ts 45: git clone of the repository the sync was made from
RoundClone ==
  /\ pc = "clone"
  /\ Stepped("clone", CopyTree(W, Remote, TempDir), FALSE, "push")
  /\ UNCHANGED ret

\* push.ts 62-68: pushPrompts(targetPath, tempDir, promptStack)
RoundPushPrompts ==
  /\ pc = "push"
  /\ Stepped("push", pushPrompts(W, args.promptStack, args.rev).w,
             pushPrompts(W, args.promptStack, args.rev).threw, "done")
  /\ ret' = [ret EXCEPT !.pushed = ~pushPrompts(W, args.promptStack, args.rev).threw,
                        !.changed = pushPrompts(W, args.promptStack, args.rev).changed]

NextRoundTrip ==
  \/ RoundSyncRules \/ RoundSyncPrompts \/ RoundResolveStack \/ RoundClone \/ RoundPushPrompts

SpecRoundTrip == InitRoundTrip /\ [][NextRoundTrip]_vars

(***************************************************************************)
(* Properties of the generators                                             *)
(***************************************************************************)
\* a generator has returned a variant of a source gray-matter can read
Produced(variant) ==
  pc = "generated" /\ ret.variant = variant /\ ~ret.threw /\ ~Matter(args.content).err

\* C12: whichever of the three generators ran, the body of the variant (the
\* text after its metadata block) is the body of the source; surrounding
\* white space, which the generators add or drop at the end, is not counted
C12_BodyPreserved ==
  \A variant \in {"cursor", "vscode", "claude"} :
    Produced(variant) => Trim(BodyOf(ret.text)) = Trim(BodyOf(args.content))

\* C13 (as stated): the pass-through generator returns the source's body
\* and no metadata block, also for a source that carries a block
C13_NoMetadataBlock == Produced("cursor") => ret.text = BodyOf(args.content)

\* C13 (amended): the pass-through generator returns its input as it is,
\* whatever the input: the body unchanged, and the source's metadata block,
\* when it has one, unchanged in front of it; it never fails
C13_PassThrough ==
  (pc = "generated" /\ ret.variant = "cursor") => (~ret.threw /\ ret.text = args.content)

\* the generator has returned a source that carries a metadata block
C13_Witness ==
  /\ Produced("cursor")
  /\ Matter(args.content).data # <<>>
  /\ Matter(ret.text).data = Matter(args.content).data
  /\ BodyOf(ret.text) = BodyOf(args.content)

Keys(data) == {data[i].k : i \in 1..Len(data)}

SourceData == Matter(args.content).data

VariantData == Matter(ret.text).data

DerivedKeys == {"name", "description", "agent"}

\* what the headered generator derives for a field: the prefixed logical
\* name, the first heading line of the body or else the logical name, and
\* the constant agent
DerivedField(key) ==
  IF key = "name" THEN ValStr(<<RulekitPrefix>> \o args.name)
  ELSE IF key = "description"
    THEN ValStr(IF HasHeading(BodyOf(args.content))
                  THEN HeadingText(BodyOf(args.content)) ELSE args.name)
  ELSE ValStr(<<"agent">>)

\* the variant's metadata has name, description, agent and the source's
\* fields; the source's other fields keep their values
VSCodeFieldsKept ==
  /\ DerivedKeys \cup Keys(SourceData) \subseteq Keys(VariantData)
  /\ \A key \in Keys(SourceData) \ DerivedKeys : Get(VariantData, key) = Get(SourceData, key)

\* C14 (as stated): the metadata of the headered variant holds the derived
\* name, description and agent, also when the source carries a field of
\* that name, and every other field of the source
C14_DerivedFieldsWin ==
  Produced("vscode") =>
    /\ VSCodeFieldsKept
    /\ \A key \in DerivedKeys : Get(VariantData, key) = DerivedField(key)

\* C14 (amended): the metadata of the headered variant holds name,
\* description and agent and every field of the source; a field the source
\* carries, name, description and agent included, keeps the source's value,
\* and only the missing ones among the three get the derived value
C14_SourceFieldsWin ==
  Produced("vscode") =>
    /\ VSCodeFieldsKept
    /\ \A key \in DerivedKeys :
         Get(VariantData, key) =
           IF key \in Keys(SourceData) THEN Get(SourceData, key) ELSE DerivedField(key)

\* a source with a name of its own and a heading: the variant keeps that
\* name and takes its description from the heading
C14_Witness ==
  /\ Produced("vscode")
  /\ Get(SourceData, "name") = ValStr(<<"n">>)
  /\ Get(VariantData, "name") = ValStr(<<"n">>)
  /\ Get(VariantData, "description") = ValStr(<<"T">>)
  /\ Get(VariantData, "agent") = ValStr(<<"agent">>)

\* the fields the Claude Code generator copies
Recognized == {"allowed-tools", "argument-hint", "description", "model"}

ClaudeExpected(key) ==
  IF key # "description" \/ TruthyVal(Get(SourceData, "description")) THEN Get(SourceData, key)
  ELSE IF HasHeading(BodyOf(args.content)) THEN ValStr(HeadingText(BodyOf(args.content)))
  ELSE ValStr(args.name)

CollectReturned == pc = "returned" /\ ret.op = "collectLocalPrompts"

\* the text of the project's copy of prompt x at a client location
LocalCopy(client) == fs[ClientFile(client, "x")]

HasCopy(client) == ClientFile(client, "x") \in DOMAIN fs

\* x is at .claude/commands and at .github/prompts, gray-matter reads both
\* copies, and their bodies differ
Conflict ==
  /\ HasCopy("claude") /\ HasCopy("github")
  /\ ~Matter(LocalCopy("claude")).err /\ ~Matter(LocalCopy("github")).err
  /\ Trim(BodyOf(LocalCopy("claude"))) # Trim(BodyOf(LocalCopy("github")))

\* the later of the two copies, the one scanned first when they are equally old
Winner ==
  IF mtime[ClientFile("github", "x")] > mtime[ClientFile("claude", "x")]
    THEN "github" ELSE "claude"

\* what the returned Map holds for a prompt name
ResultFor(name) ==
  {ret.prompts[i].canonical : i \in {k \in 1..Len(ret.prompts) : ret.prompts[k].name = name}}

\* C16: when prompt x is at two client locations with differing bodies,
\* collectLocalPrompts returns, warns about x, and holds for x the canonical
\* form of the copy modified last, of the copy at the location scanned
\* first when both were modified at the same time
C16_MostRecentWins ==
  (CollectReturned /\ Conflict) =>
    /\ ~ret.threw
    /\ <<"x">> \in log
    /\ ResultFor(<<"x">>) = {toCanonicalPromptFormat(LocalCopy(Winner)).text}

\* the .github copy is the later one and the result is its canonical form,
\* which is not that of the .claude copy
C16_Witness ==
  /\ CollectReturned /\ Conflict
  /\ mtime[ClientFile("github", "x")] > mtime[ClientFile("claude", "x")]
  /\ ResultFor(<<"x">>) = {toCanonicalPromptFormat(LocalCopy("github")).text}
  /\ toCanonicalPromptFormat(LocalCopy("github")).text
       # toCanonicalPromptFormat(LocalCopy("claude")).text

PushPromptsReturned == pc = "returned" /\ ret.op = "pushPrompts" /\ ~ret.threw

\* C17: a prompt that is at .cursor/commands only is collected and pushed
\* (with no promptStack given, prompts/common/x.md is in the clone once
\* pushPrompts has returned), and a .cursor/commands copy that is later
\* than a differing .claude/commands copy is the one collected
C17_CursorIsRead ==
  /\ (/\ PushPromptsReturned /\ args.promptStack = ""
      /\ HasCopy("cursor") /\ ~HasCopy("claude") /\ ~HasCopy("github"))
     => (ret.changed /\ CloneFile("common", "x") \in DOMAIN fs)
  /\ (/\ CollectReturned /\ ~ret.threw
      /\ HasCopy("cursor") /\ HasCopy("claude") /\ ~HasCopy("github")
      /\ mtime[ClientFile("cursor", "x")] > mtime[ClientFile("claude", "x")])
     => ResultFor(<<"x">>) = {toCanonicalPromptFormat(LocalCopy("cursor")).text}

Converted == pc = "canonical" /\ ~ret.threw

Blank(v) == v.t = "null" \/ (v.t = "str" /\ Trim(v.s) = <<>>)

PushPromptsStep == pc = "start" /\ ret'.op = "pushPrompts" /\ ~ret'.threw

\* the files <name>.md in the directories prompts/* of the clone, before the call
HoldersOf(name) ==
  {q \in DOMAIN fs :
     q.root = "tmp" /\ Len(q.dir) = 2 /\ q.dir[1] = "prompts" /\ q.name = name \o <<".md">>}

\* the files of the clone the call has written
WrittenNow == {q \in DOMAIN fs' : q.root = "tmp" /\ mtime'[q] = Now}

CreatedNow == {q \in DOMAIN fs' : q.root = "tmp" /\ q \notin DOMAIN fs}

NewFileFor(name) ==
  File("tmp", <<"prompts", IF args.promptStack = "" THEN "common" ELSE args.promptStack>>,
       name \o <<".md">>)

PushedAsClaimed(prompt) ==
  /\ \A q \in HoldersOf(prompt.name) :
       q \in WrittenNow <=> normalizePromptFile(fs[q]).text # prompt.canonical
  /\ {q \in CreatedNow : q.name = prompt.name \o <<".md">>}
       = IF HoldersOf(prompt.name) = {} THEN {NewFileFor(prompt.name)} ELSE {}
  /\ \A q \in WrittenNow :
       q.name = prompt.name \o <<".md">> => fs'[q] = PromptOutput(prompt.canonical)

AllPushedAsClaimed(prompts) ==
  /\ \A i \in 1..Len(prompts) : PushedAsClaimed(prompts[i])
  /\ \A q \in WrittenNow : \E i \in 1..Len(prompts) : q.name = prompts[i].name \o <<".md">>

\* C19: for every collected prompt, pushPrompts overwrites a file of that
\* name in a directory prompts/* of the clone exactly when its normalized
\* content differs from the local canonical form, creates a file exactly
\* when no such directory holds the name, and then the one file
\* prompts/<promptStack or common>/<name>.md; what it writes is the
\* canonical form; it writes no other file, and returns true exactly when
\* it wrote a file
C19_PushPrompts ==
  [][PushPromptsStep =>
       /\ AllPushedAsClaimed(collectLocalPrompts(W, args.rev).prompts)
       /\ ret'.changed <=> WrittenNow # {}]_vars

\* one call has overwritten x in prompts/common, left the x of prompts/vue
\* that was up to date, and created y in the stack given
C19_Witness ==
  /\ PushPromptsReturned /\ ret.changed /\ args.promptStack = "vue"
  /\ CloneFile("common", "x") \in DOMAIN fs /\ mtime[CloneFile("common", "x")] = Now
  /\ CloneFile("vue", "x") \in DOMAIN fs /\ mtime[CloneFile("vue", "x")] = 1
  /\ CloneFile("vue", "y") \in DOMAIN fs /\ mtime[CloneFile("vue", "y")] = Now
  /\ CloneFile("common", "y") \notin DOMAIN fs

\* the project's skills: the directories of .claude/skills with a SKILL.md
LocalSkills ==
  {Last(d.dir) : d \in {e \in SubDirs(W, LocalSkillsDir) :
                           File("tgt", e.dir, SkillMd) \in DOMAIN fs}}

\* the clone holds the skill with the SKILL.md the project has
IdenticalInClone(skill) ==
  /\ CloneSkillFile(skill, <<>>, SkillMd) \in DOMAIN fs
  /\ fs[CloneSkillFile(skill, <<>>, SkillMd)] = fs[LocalSkillFile(skill, <<>>, SkillMd)]

\* C20: when the SKILL.md of every skill of the project is identical to the
\* one in the clone, pushSkills returns false and writes nothing (so that
\* it returns true only when a skill differs or is missing in the clone)
C20_NoWriteWhenIdentical ==
  [][(/\ pc = "start" /\ ret'.op = "pushSkills"
      /\ \A skill \in LocalSkills : IdenticalInClone(skill))
     => (~ret'.changed /\ fs' = fs /\ mtime' = mtime /\ dirs' = dirs)]_vars

(***************************************************************************)
(* Properties of pushRules                                                  *)
(***************************************************************************)
\* a call of pushRules that returned
PushRulesStep == pc = "start" /\ pc' = "returned" /\ ~ret'.threw

\* the document of the project a rule file of the clone is derived from
AgentsOf(ruleFile) == TargetAgents(Tail(ruleFile.dir))

\* the stack's section of that document, as the call extracts it
SectionFor(ruleFile) ==
  IF ruleFile.dir = <<"rules">>
    THEN RootRuleContent(fs[AgentsOf(ruleFile)], args.stack)
    ELSE SubdirSection(Sections(Matter(fs[AgentsOf(ruleFile)]).content), args.stack)

\* C21: pushRules writes a rule file of the clone only when the stack's
\* section of the corresponding AGENTS.md differs from the body the rule
\* file had, for the root document and the others alike, and returns true
\* exactly when it wrote a file
C21_WritesOnlyOnDifference ==
  [][PushRulesStep =>
       /\ \A q \in WrittenNow : SectionFor(q) # ExistingContent(W, q)
       /\ ret'.changed <=> WrittenNow # {}]_vars

\* the AGENTS.md documents of the project below its root, outside node_modules
NonRootAgents ==
  {q \in DOMAIN fs :
     /\ q.root = "tgt" /\ q.name = AgentsName /\ q.dir # <<>>
     /\ \A i \in 1..Len(q.dir) : q.dir[i] # "node_modules"}

\* the stack's section of a non-root document
NonRootSection(q) == SubdirSection(Sections(Matter(fs[q]).content), args.stack)

\* after the step the clone holds the document's section at the mirrored path
PushedToMirror(q) ==
  /\ CloneRuleFile(q.dir, args.stack) \in DOMAIN fs'
  /\ Trim(Matter(fs'[CloneRuleFile(q.dir, args.stack)]).content) = NonRootSection(q)

\* C25: a call of pushRules that returns has left, for every non-root
\* AGENTS.md outside node_modules that has a section for the stack, that
\* section in rules/<mirrored directory>/<stack>.md of the clone, also when
\* the project has no root AGENTS.md
C25_EveryDocumentPushed ==
  [][PushRulesStep =>
       \A q \in NonRootAgents : Truthy(NonRootSection(q)) => PushedToMirror(q)]_vars

\* the stack's section of the document a rule file is derived from, before
\* anything is stripped from it
RawSectionFor(ruleFile) ==
  IF ruleFile.dir = <<"rules">>
    THEN RootSection(Sections(Matter(fs[AgentsOf(ruleFile)]).content), args.stack)
    ELSE SubdirSection(Sections(Matter(fs[AgentsOf(ruleFile)]).content), args.stack)

\* what follows the guidance heading, from the next line that is a heading
FromNextHeading(rest) ==
  IF IndexOf(rest, <<NL, HASH>>) = 0 THEN <<>> ELSE Drop(rest, IndexOf(rest, <<NL, HASH>>) - 1)

\* a text without its guidance section: the text before the heading
\* "## About This File" and the text from the next heading on
WithoutGuidance(text) ==
  IF ~Includes(text, GuidanceHeading) THEN text
  ELSE Trim(Take(text, IndexOf(text, GuidanceHeading) - 1)
            \o FromNextHeading(Drop(text, IndexOf(text, GuidanceHeading) - 1 + Len(GuidanceHeading))))

\* C26: no rule file that pushRules writes, from the root document or from
\* another, holds the guidance section, and its body is the stack's section
\* of the document with that section taken out and nothing else
C26_GuidanceNotWrittenBack ==
  [][PushRulesStep =>
       \A q \in WrittenNow :
         /\ ~Includes(fs'[q], GuidanceHeading)
         /\ Trim(Matter(fs'[q]).content) = WithoutGuidance(RawSectionFor(q))]_vars

\* the files that are not after the step what they were before it
Touched ==
  {q \in DOMAIN fs' : q \notin DOMAIN fs \/ fs'[q] # fs[q] \/ mtime'[q] # mtime[q]}

\* C30: a call of pushRules for stack S, returning or throwing, creates or
\* modifies no file but files named S.md below rules/ in the clone, and
\* removes none: the rule files of every other stack are as they were
C30_OnlyStackFiles ==
  [][(pc = "start" /\ pc' = "returned") =>
       /\ DOMAIN fs \subseteq DOMAIN fs'
       /\ \A q \in Touched :
            /\ q.root = "tmp" /\ q.dir # <<>> /\ q.dir[1] = "rules"
            /\ q.name = RuleName(args.stack)]_vars

\* pushRules for vue has written the rule files of vue at the root and in
\* docs/, beside rule files of common and nuxt that are as old as before
C30_Witness ==
  /\ pc = "returned" /\ ~ret.threw /\ ret.changed /\ args.stack = "vue"
  /\ {CloneRuleFile(<<>>, "vue"), CloneRuleFile(<<"docs">>, "vue"),
      CloneRuleFile(<<>>, "common"), CloneRuleFile(<<>>, "nuxt")} \subseteq DOMAIN fs
  /\ mtime[CloneRuleFile(<<>>, "vue")] = Now
  /\ mtime[CloneRuleFile(<<"docs">>, "vue")] = Now
  /\ mtime[CloneRuleFile(<<>>, "common")] = 1
  /\ mtime[CloneRuleFile(<<>>, "nuxt")] = 1

(***************************************************************************)
(* Further properties of sync                                               *)
(***************************************************************************)
\* the user's own instruction files in the project
IsUserFile(q) ==
  /\ q.root = "tgt"
  /\ \/ q.dir = <<".cursor", "rules">> /\ EndsWith(q.name, <<".md">>)
     \/ q.dir = <<>> /\ q.name \in {<<".cursorrules">>, <<"CLAUDE", ".md">>}
     \/ q.dir = <<".github">> /\ q.name = <<"copilot-instructions", ".md">>

ClientPromptDirs == {<<".cursor", "commands">>, <<".github", "prompts">>, <<".claude", "commands">>}

\* what sync may write: an AGENTS.md, a rulekit- prompt file in one of the
\* three client directories, a file of a skill below .claude/skills/<name>/
IsSyncOutput(q) ==
  /\ q.root = "tgt"
  /\ \/ q.name = AgentsName
     \/ q.dir \in ClientPromptDirs /\ Head(q.name) = RulekitPrefix
     \/ Len(q.dir) >= 3 /\ Take(q.dir, 2) = <<".claude", "skills">>

\* C22: no step of sync (syncRules, syncPrompts, syncSkills) creates,
\* modifies or removes one of the user's own instruction files
\* (.cursor/rules/*.md, .cursorrules, .github/copilot-instructions.md,
\* CLAUDE.md); every file a step creates or modifies is an AGENTS.md, a
\* rulekit- file of .cursor/commands, .github/prompts or .claude/commands,
\* or a file below .claude/skills/<name>/, and no file is removed
C22_UserFilesUntouched ==
  [][/\ DOMAIN fs \subseteq DOMAIN fs'
     /\ \A q \in Touched : IsSyncOutput(q) /\ ~IsUserFile(q)]_vars

\* the three operations have completed beside the four files of the user,
\* which are as old as before, and have written a document, a prompt
\* variant at each client location and a skill
C22_Witness ==
  /\ pc = "done"
  /\ Completed("rules") /\ Completed("prompts") /\ Completed("skills")
  /\ \A q \in {File("tgt", <<>>, <<"CLAUDE", ".md">>), File("tgt", <<>>, <<".cursorrules">>),
               File("tgt", <<".cursor", "rules">>, <<"mine", ".md">>),
               File("tgt", <<".github">>, <<"copilot-instructions", ".md">>)} :
       q \in DOMAIN fs /\ fs[q] = <<"mine">> /\ mtime[q] = 1
  /\ \A q \in {File("tgt", <<>>, AgentsName), CursorPath(<<"CLAUDE">>), VSCodePath(<<"CLAUDE">>),
               ClaudePath(<<"CLAUDE">>), File("tgt", <<".claude", "skills", "s1">>, <<"CLAUDE", ".md">>)} :
       q \in DOMAIN fs /\ mtime[q] = Now
  /\ File("src", <<"rules", ".cursor", "rules">>, RuleName("common")) \in DOMAIN fs

\* the one layer this path has: the stack's rule file when there is no
\* common one, else the common one
OnlyLayer(rel) ==
  IF SrcRule(rel, "common") \in DOMAIN fs THEN SrcRule(rel, "common") ELSE SrcRule(rel, args.stack)

\* exactly one of the two layers is there for this path, with text in its
\* body: the other has no rule file, or the stack is "common"
OneLayer(rel) ==
  /\ (SrcRule(rel, "common") \in DOMAIN fs)
       # (args.stack # "common" /\ SrcRule(rel, args.stack) \in DOMAIN fs)
  /\ ~Matter(fs[OnlyLayer(rel)]).err
  /\ HasText(BodyOf(fs[OnlyLayer(rel)]))

\* `---\nstack: <stack>\n---\n`, a blank line, then the trimmed body and a
\* line break
ExpectedSingle(rel) ==
  <<DASH, DASH, DASH, NL, "stack", COLON, SP, args.stack, NL, DASH, DASH, DASH, NL, NL>>
  \o Trim(BodyOf(fs[OnlyLayer(rel)]))
  \o <<NL>>

\* C24: once syncRules has completed, every path with one layer only holds
\* an AGENTS.md whose merged content is that layer's body trimmed of
\* surrounding white space and followed by one line break
C24_SingleLayerTrimmed ==
  Completed("rules") =>
    \A rel \in RuleDirs :
      OneLayer(rel) =>
        /\ File("tgt", rel, AgentsName) \in DOMAIN fs
        /\ fs[File("tgt", rel, AgentsName)] = ExpectedSingle(rel)

\* the prompt sources of a stack with this logical name
SourcesNamed(stack, name) ==
  {q \in DOMAIN fs :
     /\ Under(DirOf(q), PromptsDir(stack))
     /\ EndsWith(q.name, <<".md">>) /\ BaseName(q.name) = name}

\* the logical names that a common source and exactly one source of the
\* selected stack share
SharedNames ==
  {BaseName(q.name) : q \in {p \in DOMAIN fs :
     /\ SourcesNamed("common", BaseName(p.name)) # {}
     /\ SourcesNamed(args.stack, BaseName(p.name)) = {p}}}

StackSource(name) == CHOOSE p \in SourcesNamed(args.stack, name) : TRUE

\* the three files of the project for this name hold the variants of `content`
HoldsVariantsOf(f, name, content) ==
  /\ {CursorPath(name), VSCodePath(name), ClaudePath(name)} \subseteq DOMAIN f
  /\ f[CursorPath(name)] = generateCursorCommand(content).text
  /\ f[VSCodePath(name)] = generateVSCodePrompt(content, name).text
  /\ f[ClaudePath(name)] = generateClaudeCodeCommand(content, name).text

\* C27: when syncPrompts for a stack other than "common" has completed,
\* the three files of every logical name that a common source and a source
\* of the stack share hold the variants generated from the stack's source,
\* in either enumeration order of the directories
C27_StackSourceWins ==
  [][(pc = "prompts" /\ ~ret'.threw /\ args.stack # "common") =>
       \A name \in SharedNames : HoldsVariantsOf(fs', name, fs[StackSource(name)])]_vars

\* syncPrompts for vue has completed, in the reverse enumeration order,
\* over a common x.md and a vue x.md of different text, and the Cursor file
\* holds the text of the vue source
C27_Witness ==
  /\ Completed("prompts") /\ args.stack = "vue" /\ args.rev
  /\ SharedNames = {<<"x">>}
  /\ fs[File("src", <<"prompts", "common">>, <<"x", ".md">>)]
       # fs[File("src", <<"prompts", "vue">>, <<"x", ".md">>)]
  /\ fs[CursorPath(<<"x">>)] = fs[File("src", <<"prompts", "vue">>, <<"x", ".md">>)]

(***************************************************************************)
(* Further properties of resolveStack                                       *)
(***************************************************************************)
\* the project has no .env, or one that does not name RULEKIT_STACK
NoEnvValue ==
  EnvFile \notin DOMAIN fs \/ \A i \in 1..Len(fs[EnvFile]) : fs[EnvFile][i] # RulekitStack

\* the root AGENTS.md is missing, opens with no metadata block, or has one
\* that cannot be parsed
NoAgentsSignal ==
  \/ TargetAgents(<<>>) \notin DOMAIN fs
  \/ ~StartsWith(fs[TargetAgents(<<>>)], Fence)
  \/ Matter(fs[TargetAgents(<<>>)]).err

\* C23: with no explicit stack and no value in .env, resolveStack over a
\* project whose AGENTS.md is missing, has no metadata block or has one
\* that cannot be parsed does not fail and returns "common"
C23_ToleratesAgentsMd ==
  (pc = "resolved" /\ args.explicit = <<>> /\ NoEnvValue /\ NoAgentsSignal)
    => ret = [value |-> <<"common">>, threw |-> FALSE]

(***************************************************************************)
(* Properties of the round trip                                             *)
(***************************************************************************)
\* syncRules has written the root document of the project in this run
RootDocumentSynced ==
  /\ TargetAgents(<<>>) \in DOMAIN fs
  /\ mtime[TargetAgents(<<>>)] = Now

\* C28: after syncRules for a stack S other than "common" has written the
\* root AGENTS.md of a project whose .env does not name RULEKIT_STACK,
\* resolveStack with no explicit stack returns S
C28_StackRoundTrip ==
  (/\ Len(log) >= 3 /\ log[3] = "resolve"
   /\ args.stack # "common" /\ RootDocumentSynced /\ NoEnvValue)
    => ret.resolved /\ ret.stack = <<args.stack>>

\* resolveStack has returned "3", the stack of the sync before it, read
\* from a root document that holds the stack's layer only, beside a .env
\* that names another variable
C28_Witness ==
  /\ Len(log) >= 3 /\ log[3] = "resolve"
  /\ args.stack = "3" /\ RootDocumentSynced /\ NoEnvValue
  /\ EnvFile \in DOMAIN fs
  /\ SrcRule(<<>>, "common") \notin DOMAIN fs
  /\ ret.resolved /\ ret.stack = <<"3">>

\* C29: pushPrompts, run after syncPrompts has generated the variants of
\* every prompt source and with no file of the project edited, against a
\* clone whose prompts are the sources of the sync, returns false and
\* writes no file
C29_NothingToPush ==
  [][(pc = "push" /\ pc' = "done") => (~ret'.changed /\ fs' = fs)]_vars

====
